---- MODULE Spec2Model ----
(***************************************************************************)
(* Multi-backend database connection manager of au-api.                    *)
(*                                                                         *)
(*   DatabaseManager        registry  name -> config, name -> connection    *)
(*   MSSQLConnection        pool of the mssql driver, @name parameters      *)
(*   MySQLConnection        pool of mysql2, :name -> ? translation          *)
(*   PostgreSQLConnection   pool of pg, :name -> $n translation             *)
(*                                                                         *)
(* Every async method is cut at its awaits: one action per synchronous     *)
(* stretch of code.  Callers are the members of Tasks; a task runs one     *)
(* call at a time and keeps the connection object and the transaction      *)
(* handle it was given.  The drivers and the database servers are the      *)
(* environment: each awaited driver call resolves or rejects.              *)
(***************************************************************************)
EXTENDS Integers, Sequences, FiniteSets, TLC

\* ------------------------------------------------------------------ bounds
MaxConns == 2      \* connection objects constructed in one run
MaxPools == 2      \* native pools created in one run
PoolMax  == 1      \* sessions of one native pool (poolConfig.max, scaled down)
MaxWrites == 2     \* writes issued through one transaction handle
MaxLen   == 4      \* characters of an SQL template
MaxRows  == 2      \* rows of a rowset a driver returns
MaxAffected == 3   \* rows a statement affects

Names == {"primary", "secondary"}
Types == {"mssql", "mysql", "postgresql"}
Tasks == {"t1", "t2"}

VARIABLES
  configs,      \* DatabaseManager.configs
  connections,  \* DatabaseManager.connections (0: no entry)
  conns,        \* the connection objects constructed so far
  pools,        \* the native pools created so far
  txs,          \* the transaction each caller has begun
  db,           \* committed rows of each logical database (server side)
  task,         \* the callers
  stmt,         \* the statement a query(sql, params) call prepares
  registered,   \* per name, the argument of the latest register(config) call
  pool          \* the pool singleton of the single-database helper (0: null)

vars == <<configs, connections, conns, pools, txs, db, task, stmt, registered, pool>>

\* ------------------------------------------------------------- data shapes
NoConfig == [name |-> "", type |-> "", enabled |-> FALSE]

\* AnyDatabaseConfig, reduced to the attributes the manager reads
Config == [name : Names, type : Types, enabled : BOOLEAN]

\* a session of a native pool: who checked it out ("": idle in the pool,
\* "probe": the probe of a connect(), else the caller whose transaction it is),
\* whether the server has a transaction open on it (intx),
\* and the rows that transaction has written and not yet committed
IdleSession == [owner |-> "", intx |-> FALSE, pending |-> {}]

NoRes == [kind |-> "none", class |-> "", msg |-> "", database |-> "",
          type |-> "", cause |-> FALSE, conn |-> 0, rows |-> {},
          value |-> FALSE, map |-> <<>>, pool |-> 0]

\* a call that returned
Returned(c, rows) == [NoRes EXCEPT !.kind = "ok", !.conn = c, !.rows = rows]

\* new DatabaseError(message, database, type, originalError?)
DatabaseError(msg, database, type, cause) ==
  [NoRes EXCEPT !.kind = "err", !.class = "DatabaseError", !.msg = msg,
                !.database = database, !.type = type, !.cause = cause]

\* an error of a driver that reaches the caller as it was thrown
DriverError == [NoRes EXCEPT !.kind = "err", !.class = "DriverError"]

\* a call that returned the boolean b
Answer(b) == [NoRes EXCEPT !.kind = "bool", !.value = b]

\* a call that returned the Record<string, boolean> m
Answers(m) == [NoRes EXCEPT !.kind = "map", !.map = m]

\* a caller: the call it runs (op, its argument name, the connection object c,
\* the native pool p and the session s the call works on, its position pc),
\* the connection object it holds (ref), what its last call returned or
\* threw (res), and what this.pool and this.connected of the object were
\* when the call started (pool0, connected0).  stack: the methods that are
\* waiting for the call the task runs (outermost first), "conn." marking a
\* method of a connection object.  todo and results are the loop of
\* testAllConnections(), kids the disconnect(name) calls a disconnectAll()
\* started (per name: the object, the pool being closed, how far it got)
IdleTask == [pc |-> "idle", op |-> "", name |-> "", c |-> 0, p |-> 0, s |-> 0,
             ref |-> 0, res |-> NoRes, pool0 |-> 0, connected0 |-> FALSE,
             stack |-> <<>>, todo |-> {}, results |-> <<>>, kids |-> <<>>]

\* The closure a Transaction handle is made of: the connection object, the
\* pool and the dedicated session.  handle: beginTransaction() returned it.
\* acquired is the state of the mssql driver's Transaction object (it holds a
\* pool connection).  writes, failed, ended and wend record what the caller
\* did with the handle: statements that succeeded, whether one failed, the
\* outcome of the first commit() / rollback() and the statements that had
\* succeeded by then.
NoTx == [c |-> 0, type |-> "", p |-> 0, s |-> 0, handle |-> FALSE,
         acquired |-> FALSE, writes |-> 0, failed |-> FALSE, ended |-> "",
         wend |-> 0]

\* What a driver resolves a statement with: whether it carries a rowset
\* (mssql: result.recordset; mysql2: the first element is an array and not a
\* ResultSetHeader; pg: the command returns rows), the rows, and the
\* affected-row counts it reports (mssql: rowsAffected, one count per
\* statement; mysql2: affectedRows of the header; pg: rowCount, <<>> for null)
NoNative == [type |-> "", present |-> FALSE, rows |-> <<>>, affected |-> <<>>]

\* QueryResult: rows (defined: it is an array) and rowCount
NoResult == [defined |-> FALSE, rows |-> <<>>, rowCount |-> 0]

\* A query(sql, params) call up to the point where it sends its statement:
\* the arguments (sql: a sequence of characters, params: the entries of the
\* object in insertion order), the class of the connection (type, "" before
\* the call), the text and the value list handed to the driver, and the
\* inputs declared on the request (MSSQL); then what the driver resolved with
\* (native) and the QueryResult the call returns (result)
NoStmt == [sql |-> <<>>, params |-> <<>>, type |-> "", text |-> <<>>,
           values |-> <<>>, inputs |-> <<>>, native |-> NoNative,
           result |-> NoResult]

Init ==
  /\ stmt = NoStmt
  /\ configs = [n \in Names |-> NoConfig]
  /\ registered = [n \in Names |-> NoConfig]
  /\ pool = 0
  /\ connections = [n \in Names |-> 0]
  /\ conns = <<>>
  /\ pools = <<>>
  /\ txs = [t \in Tasks |-> NoTx]
  /\ db = [n \in Names |-> {}]
  /\ task = [t \in Tasks |-> IdleTask]

\* --------------------------------------------------------------- helpers
Idle(t) == task[t].pc = "idle"

\* the task starts a call: its locals and its last result are cleared
Call(t, op, n, c) ==
  [task[t] EXCEPT !.op = op, !.name = n, !.c = c, !.p = 0, !.s = 0, !.res = NoRes,
                  !.pool0 = IF c = 0 THEN 0 ELSE conns[c].pool,
                  !.connected0 = IF c = 0 THEN FALSE ELSE conns[c].connected]

\* the call ends with result r; its locals are dropped.  The result goes to
\* the caller, or to the method that awaits the call
Finish(tk, r) ==
  [tk EXCEPT !.pc = IF tk.stack = <<>> THEN "idle" ELSE "returned",
             !.c = 0, !.p = 0, !.s = 0, !.res = r]

\* the method on top of the stack ends with result r
Return(tk, r) ==
  Finish([tk EXCEPT !.op = tk.stack[Len(tk.stack)],
                    !.stack = SubSeq(tk.stack, 1, Len(tk.stack) - 1)], r)

Top(tk) == IF tk.stack = <<>> THEN "" ELSE tk.stack[Len(tk.stack)]

FreeSessions(p) == {s \in 1..PoolMax : pools[p].sess[s].owner = ""}

\* a session checked out by the probe of connect() is owned by Probe
Probe == "probe"

\* where a call goes on once the connect() it awaited has returned
AfterConnect(op) ==
  CASE op = "get" -> "store"
    [] op = "query" -> "exec"
    [] op = "execute" -> "exec"
    [] op = "beginTransaction" -> "acquire"
    [] op = "testConnection" -> "probe"
    [] OTHER -> "idle"

\* connect() returned to the call that awaited it
Connected(tk) ==
  IF AfterConnect(tk.op) = "idle" THEN Finish(tk, Returned(tk.c, {}))
  ELSE [tk EXCEPT !.pc = AfterConnect(tk.op), !.p = 0, !.s = 0]

\* the catch block of connect()
ConnectFailed(c) ==
  DatabaseError("Failed to connect", conns[c].name, conns[c].type, TRUE)

\* register(config) that keeps the enabled flag of the configuration it replaces
register_merge(cfg) ==
  /\ configs' = [configs EXCEPT ![cfg.name] =
                   IF configs[cfg.name] = NoConfig THEN cfg
                   ELSE [cfg EXCEPT !.enabled = configs[cfg.name].enabled]]
  /\ registered' = [registered EXCEPT ![cfg.name] = cfg]
  /\ UNCHANGED <<connections, conns, pools, txs, db, task, stmt, pool>>

\* ------------------------------------------------------- DatabaseManager
\* register(config)
register(cfg) ==
  /\ configs' = [configs EXCEPT ![cfg.name] = cfg]
  /\ registered' = [registered EXCEPT ![cfg.name] = cfg]
  /\ UNCHANGED <<connections, conns, pools, txs, db, task, stmt, pool>>

\* createConnection(config): the new object of the class config.type names
createConnection(cfg) ==
  [name |-> cfg.name, type |-> cfg.type, pool |-> 0, connected |-> FALSE]

\* the native pool a driver builds for connection object c
NewPool(c) ==
  [name |-> c.name, type |-> c.type, state |-> "new", ends |-> 0,
   sess |-> [s \in 1..PoolMax |-> IdleSession]]

\* connect() past its early return, up to its first await:
\* this.pool = new Pool(this.config), then the first driver call is awaited
connect_enter(tk, c, cs) ==
  /\ Len(pools) < MaxPools
  /\ pools' = Append(pools, NewPool(cs[c]))
  /\ conns' = [cs EXCEPT ![c].pool = Len(pools) + 1]
  /\ task' = [task EXCEPT ![tk.t] =
        [tk.rec EXCEPT !.pc = "connect1", !.c = c, !.p = Len(pools) + 1]]

\* get(name) without the lookup in this.connections: every call builds and
\* connects a new object
get_without_lookup(t, n) ==
  /\ Idle(t)
  /\ IF configs[n] = NoConfig
       THEN /\ task' = [task EXCEPT ![t] =
                 Finish(Call(t, "get", n, 0),
                        DatabaseError("No configuration found", n, "mssql", FALSE))]
            /\ UNCHANGED <<conns, pools>>
     ELSE IF configs[n].enabled = FALSE
       THEN /\ task' = [task EXCEPT ![t] =
                 Finish(Call(t, "get", n, 0),
                        DatabaseError("is disabled", n, configs[n].type, FALSE))]
            /\ UNCHANGED <<conns, pools>>
     ELSE /\ Len(conns) < MaxConns
          /\ connect_enter([t |-> t, rec |-> Call(t, "get", n, 0)], Len(conns) + 1,
                           Append(conns, createConnection(configs[n])))
  /\ UNCHANGED <<configs, connections, txs, db, stmt, registered, pool>>

\* get(name) that falls back to a default configuration for a name that has
\* none
get_default_config(t, n) ==
  /\ Idle(t)
  /\ IF connections[n] # 0
       THEN /\ task' = [task EXCEPT ![t] =
                 Finish([Call(t, "get", n, 0) EXCEPT !.ref = connections[n]],
                        Returned(connections[n], {}))]
            /\ UNCHANGED <<conns, pools>>
     ELSE IF configs[n] # NoConfig /\ configs[n].enabled = FALSE
       THEN /\ task' = [task EXCEPT ![t] =
                 Finish(Call(t, "get", n, 0),
                        DatabaseError("is disabled", n, configs[n].type, FALSE))]
            /\ UNCHANGED <<conns, pools>>
     ELSE /\ Len(conns) < MaxConns
          /\ connect_enter([t |-> t, rec |-> Call(t, "get", n, 0)], Len(conns) + 1,
                Append(conns, createConnection(
                   IF configs[n] = NoConfig
                     THEN [name |-> n, type |-> "mssql", enabled |-> TRUE]
                     ELSE configs[n])))
  /\ UNCHANGED <<configs, connections, txs, db, stmt, registered, pool>>

\* get(name), up to its first await
get(t, n) ==
  /\ Idle(t)
  /\ IF connections[n] # 0
       THEN /\ task' = [task EXCEPT ![t] =
                 Finish([Call(t, "get", n, 0) EXCEPT !.ref = connections[n]],
                        Returned(connections[n], {}))]
            /\ UNCHANGED <<conns, pools>>
     ELSE IF configs[n] = NoConfig
       THEN /\ task' = [task EXCEPT ![t] =
                 Finish(Call(t, "get", n, 0),
                        DatabaseError("No configuration found", n, "mssql", FALSE))]
            /\ UNCHANGED <<conns, pools>>
     ELSE IF configs[n].enabled = FALSE
       THEN /\ task' = [task EXCEPT ![t] =
                 Finish(Call(t, "get", n, 0),
                        DatabaseError("is disabled", n, configs[n].type, FALSE))]
            /\ UNCHANGED <<conns, pools>>
     ELSE /\ Len(conns) < MaxConns
          /\ connect_enter([t |-> t, rec |-> Call(t, "get", n, 0)], Len(conns) + 1,
                           Append(conns, createConnection(configs[n])))
  /\ UNCHANGED <<configs, connections, txs, db, stmt, registered, pool>>

\* get(name) after `await connection.connect()`
get_store(t) ==
  /\ task[t].pc = "store"
  /\ connections' = [connections EXCEPT ![task[t].name] = task[t].c]
  /\ task' = [task EXCEPT ![t] =
        Finish([task[t] EXCEPT !.ref = IF task[t].stack = <<>> THEN task[t].c ELSE @],
               Returned(task[t].c, {}))]
  /\ UNCHANGED <<configs, conns, pools, txs, db, stmt, registered, pool>>

\* ------------------------------------------------------------- connect()
\* MSSQLConnection.connect: `await this.pool.connect()` resolved
MSSQL_connect_ok(t) ==
  /\ task[t].pc = "connect1"
  /\ conns[task[t].c].type = "mssql"
  /\ pools[task[t].p].state # "closed"
  /\ pools' = [pools EXCEPT ![task[t].p].state = "open"]
  /\ conns' = [conns EXCEPT ![task[t].c].connected = TRUE]
  /\ task' = [task EXCEPT ![t] = Connected(task[t])]
  /\ UNCHANGED <<configs, connections, txs, db, stmt, registered, pool>>

\* a get(name) that stores the object in this.connections although its
\* connect() failed
MSSQL_connect_fail_stored(t) ==
  /\ task[t].pc = "connect1"
  /\ conns[task[t].c].type = "mssql"
  /\ connections' = [connections EXCEPT ![conns[task[t].c].name] = task[t].c]
  /\ task' = [task EXCEPT ![t] = Finish(task[t], ConnectFailed(task[t].c))]
  /\ UNCHANGED <<configs, conns, pools, txs, db, stmt, registered, pool>>

\* a connect() that lets the error of the driver through and counts the
\* object as connected
MSSQL_connect_fail_raw(t) ==
  /\ task[t].pc = "connect1"
  /\ conns[task[t].c].type = "mssql"
  /\ conns' = [conns EXCEPT ![task[t].c].connected = TRUE]
  /\ task' = [task EXCEPT ![t] = Finish(task[t], DriverError)]
  /\ UNCHANGED <<configs, connections, pools, txs, db, stmt, registered, pool>>

\* MSSQLConnection.connect: `await this.pool.connect()` rejected
MSSQL_connect_fail(t) ==
  /\ task[t].pc = "connect1"
  /\ conns[task[t].c].type = "mssql"
  /\ task' = [task EXCEPT ![t] = Finish(task[t], ConnectFailed(task[t].c))]
  /\ UNCHANGED <<configs, connections, conns, pools, txs, db, stmt, registered, pool>>

\* connect() of the two classes that probe with a checked-out session:
\* `await this.pool.getConnection()` / `await this.pool.connect()` resolved
probe_acquired(t, ty) ==
  /\ task[t].pc = "connect1"
  /\ conns[task[t].c].type = ty
  /\ pools[task[t].p].state # "closed"
  /\ \E s \in FreeSessions(task[t].p) :
       /\ pools' = [pools EXCEPT ![task[t].p].sess[s].owner = Probe,
                                 ![task[t].p].state = "open"]
       /\ task' = [task EXCEPT ![t].pc = "connect2", ![t].s = s]
  /\ UNCHANGED <<configs, connections, conns, txs, db, stmt, registered, pool>>

\* ... rejected
probe_refused(t, ty) ==
  /\ task[t].pc = "connect1"
  /\ conns[task[t].c].type = ty
  /\ task' = [task EXCEPT ![t] = Finish(task[t], ConnectFailed(task[t].c))]
  /\ UNCHANGED <<configs, connections, conns, pools, txs, db, stmt, registered, pool>>

\* `await connection.ping()` / `await client.query('SELECT 1')` resolved:
\* the session is released and this.connected = true
probe_ok(t, ty) ==
  /\ task[t].pc = "connect2"
  /\ conns[task[t].c].type = ty
  /\ pools[task[t].p].state # "closed"
  /\ pools' = [pools EXCEPT ![task[t].p].sess[task[t].s].owner = ""]
  /\ conns' = [conns EXCEPT ![task[t].c].connected = TRUE]
  /\ task' = [task EXCEPT ![t] = Connected(task[t])]
  /\ UNCHANGED <<configs, connections, txs, db, stmt, registered, pool>>

\* ... rejected: the catch block runs, the session is not released
probe_fail(t, ty) ==
  /\ task[t].pc = "connect2"
  /\ conns[task[t].c].type = ty
  /\ task' = [task EXCEPT ![t] = Finish(task[t], ConnectFailed(task[t].c))]
  /\ UNCHANGED <<configs, connections, conns, pools, txs, db, stmt, registered, pool>>

MySQL_connect_getConnection_ok(t) == probe_acquired(t, "mysql")
MySQL_connect_getConnection_fail(t) == probe_refused(t, "mysql")
MySQL_connect_ping_ok(t) == probe_ok(t, "mysql")
MySQL_connect_ping_fail(t) == probe_fail(t, "mysql")
PostgreSQL_connect_client_ok(t) == probe_acquired(t, "postgresql")
PostgreSQL_connect_client_fail(t) == probe_refused(t, "postgresql")
PostgreSQL_connect_select_ok(t) == probe_ok(t, "postgresql")
PostgreSQL_connect_select_fail(t) == probe_fail(t, "postgresql")

\* ---------------------------------------------------------- disconnect()
\* disconnect() without `if (!this.pool) return`: this.pool.end() on a null
\* this.pool throws inside the try block and the catch block wraps it
disconnect_enter_no_guard(tk, c) ==
  IF conns[c].pool = 0
    THEN /\ task' = [task EXCEPT ![tk.t] =
               Finish(tk.rec, DatabaseError("Failed to disconnect", conns[c].name,
                                            conns[c].type, TRUE))]
         /\ UNCHANGED pools
    ELSE /\ pools' = [pools EXCEPT ![conns[c].pool].ends = 1]
         /\ task' = [task EXCEPT ![tk.t] =
               [tk.rec EXCEPT !.pc = "closing", !.c = c, !.p = conns[c].pool]]

\* connection.disconnect() up to its await: `if (!this.pool) return`,
\* else this.pool.end() / close() is called and awaited
disconnect_enter(tk, c) ==
  IF conns[c].pool = 0
    THEN /\ task' = [task EXCEPT ![tk.t] =
               IF tk.rec.op = "disconnect" THEN [tk.rec EXCEPT !.pc = "delete", !.c = c]
               ELSE Finish(tk.rec, Returned(c, {}))]
         /\ UNCHANGED pools
    ELSE /\ pools' = [pools EXCEPT ![conns[c].pool].ends = 1]
         /\ task' = [task EXCEPT ![tk.t] =
               [tk.rec EXCEPT !.pc = "closing", !.c = c, !.p = conns[c].pool]]

\* `await this.pool.end()` resolved: this.pool = null, this.connected = false.
\* The server ends the sessions of the pool; what they had not committed is lost.
disconnect_ok(t) ==
  /\ task[t].pc = "closing"
  /\ pools' = [pools EXCEPT ![task[t].p].state = "closed",
        ![task[t].p].sess = [s \in 1..PoolMax |->
                                [@[s] EXCEPT !.intx = FALSE, !.pending = {}]]]
  /\ conns' = [conns EXCEPT ![task[t].c].pool = 0, ![task[t].c].connected = FALSE]
  /\ task' = [task EXCEPT ![t] =
        IF task[t].op = "disconnect" THEN [task[t] EXCEPT !.pc = "delete"]
        ELSE Finish(task[t], Returned(task[t].c, {}))]
  /\ UNCHANGED <<configs, connections, txs, db, stmt, registered, pool>>

\* `await this.pool.end()` rejected: the catch block
disconnect_fail(t) ==
  /\ task[t].pc = "closing"
  /\ task' = [task EXCEPT ![t] =
        Finish(task[t], DatabaseError("Failed to disconnect", conns[task[t].c].name,
                                      conns[task[t].c].type, TRUE))]
  /\ UNCHANGED <<configs, connections, conns, pools, txs, db, stmt, registered, pool>>

\* DatabaseManager.disconnect(name), up to its await
disconnect(t, n) ==
  /\ Idle(t)
  /\ IF connections[n] = 0
       THEN /\ task' = [task EXCEPT ![t] =
                 Finish(Call(t, "disconnect", n, 0), Returned(0, {}))]
            /\ UNCHANGED pools
       ELSE disconnect_enter([t |-> t, rec |-> Call(t, "disconnect", n, 0)],
                             connections[n])
  /\ UNCHANGED <<configs, connections, conns, txs, db, stmt, registered, pool>>

\* DatabaseManager.disconnect(name) that leaves the entry in this.connections
disconnect_keep(t) ==
  /\ task[t].pc = "delete"
  /\ task' = [task EXCEPT ![t] = Finish(task[t], Returned(0, {}))]
  /\ UNCHANGED <<configs, connections, conns, pools, txs, db, stmt, registered, pool>>

\* DatabaseManager.disconnect(name) after `await connection.disconnect()`
disconnect_delete(t) ==
  /\ task[t].pc = "delete"
  /\ connections' = [connections EXCEPT ![task[t].name] = 0]
  /\ task' = [task EXCEPT ![t] = Finish(task[t], Returned(0, {}))]
  /\ UNCHANGED <<configs, conns, pools, txs, db, stmt, registered, pool>>

\* ------------------------------------------------------ testConnection()
\* get(name) called by a method of the manager (rec: the task as that method
\* left it), up to its first await
get_called(t, rec, n) ==
  IF connections[n] # 0
    THEN /\ task' = [task EXCEPT ![t] = Finish(rec, Returned(connections[n], {}))]
         /\ UNCHANGED <<conns, pools>>
  ELSE IF configs[n] = NoConfig
    THEN /\ task' = [task EXCEPT ![t] =
              Finish(rec, DatabaseError("No configuration found", n, "mssql", FALSE))]
         /\ UNCHANGED <<conns, pools>>
  ELSE IF configs[n].enabled = FALSE
    THEN /\ task' = [task EXCEPT ![t] =
              Finish(rec, DatabaseError("is disabled", n, configs[n].type, FALSE))]
         /\ UNCHANGED <<conns, pools>>
  ELSE /\ Len(conns) < MaxConns
       /\ connect_enter([t |-> t, rec |-> rec], Len(conns) + 1,
                        Append(conns, createConnection(configs[n])))

\* the probe of testConnection() on connection object c, up to its await.
\* MSSQL: this.query('SELECT 1 as test'), whose own check of this.pool and
\* this.connected has just passed; PostgreSQL: this.pool.query(...);
\* MySQL: this.pool.getConnection()
Probing(tk, c) ==
  CASE conns[c].type = "mssql" ->
         [tk EXCEPT !.op = "query", !.pc = "await", !.p = conns[c].pool]
    [] conns[c].type = "postgresql" ->
         [tk EXCEPT !.pc = "await", !.p = conns[c].pool]
    [] OTHER ->
         [tk EXCEPT !.pc = "probe1", !.p = conns[c].pool]

\* testConnection() of connection object c, up to its first await:
\* `if (!this.pool || !this.connected) await this.connect()`, then the probe
test_enter(t, rec, c) ==
  LET tk == [rec EXCEPT !.op = "testConnection", !.c = c, !.p = 0, !.s = 0,
                        !.res = NoRes, !.pool0 = conns[c].pool,
                        !.connected0 = conns[c].connected]
  IN  IF conns[c].pool = 0 \/ ~conns[c].connected
        THEN connect_enter([t |-> t, rec |-> tk], c, conns)
        ELSE /\ task' = [task EXCEPT ![t] = Probing(tk, c)]
             /\ UNCHANGED <<conns, pools>>

\* testConnection() after `await this.connect()`: the probe reads this.pool.
\* The query() MSSQL probes with connects again when the object is not
\* connected; the other two classes dereference this.pool, and the TypeError
\* of a null this.pool is caught
test_resume(t) ==
  /\ task[t].pc = "probe"
  /\ LET c == task[t].c IN
     IF conns[c].type = "mssql" /\ (conns[c].pool = 0 \/ ~conns[c].connected)
       THEN connect_enter([t |-> t, rec |-> [task[t] EXCEPT !.op = "query"]], c, conns)
       ELSE /\ task' = [task EXCEPT ![t] =
                 IF conns[c].pool = 0 THEN Return(task[t], Answer(FALSE))
                 ELSE Probing(task[t], c)]
            /\ UNCHANGED <<conns, pools>>
  /\ UNCHANGED <<configs, connections, txs, db, stmt, registered, pool>>

\* the frames of testConnection(): the manager's and the connection's
TestFrames == {"testConnection", "conn.testConnection"}

\* testConnection(): the connect() or the statement it awaited came back.
\* `return result.rows.length > 0` (SELECT 1 yields one row); the catch
\* blocks, of the connection and of the manager, return false
test_returned(t) ==
  /\ task[t].pc = "returned"
  /\ task[t].op \in {"testConnection", "query"}
  /\ Top(task[t]) \in TestFrames
  /\ task' = [task EXCEPT ![t] = Return(task[t], Answer(task[t].res.kind = "ok"))]
  /\ UNCHANGED <<configs, connections, conns, pools, txs, db, stmt, registered, pool>>

\* MySQLConnection.testConnection: `await this.pool.getConnection()` resolved
MySQL_test_getConnection_ok(t) ==
  /\ task[t].pc = "probe1"
  /\ pools[task[t].p].state # "closed"
  /\ \E s \in FreeSessions(task[t].p) :
       /\ pools' = [pools EXCEPT ![task[t].p].sess[s].owner = Probe,
                                 ![task[t].p].state = "open"]
       /\ task' = [task EXCEPT ![t].pc = "probe2", ![t].s = s]
  /\ UNCHANGED <<configs, connections, conns, txs, db, stmt, registered, pool>>

\* ... rejected: the catch block returns false
MySQL_test_getConnection_fail(t) ==
  /\ task[t].pc = "probe1"
  /\ task' = [task EXCEPT ![t] = Return(task[t], Answer(FALSE))]
  /\ UNCHANGED <<configs, connections, conns, pools, txs, db, stmt, registered, pool>>

\* `await connection.ping()` resolved: connection.release(), return true
MySQL_test_ping_ok(t) ==
  /\ task[t].pc = "probe2"
  /\ pools[task[t].p].state # "closed"
  /\ pools' = [pools EXCEPT ![task[t].p].sess[task[t].s].owner = ""]
  /\ task' = [task EXCEPT ![t] = Return(task[t], Answer(TRUE))]
  /\ UNCHANGED <<configs, connections, conns, txs, db, stmt, registered, pool>>

\* ... rejected: the catch block returns false, the session is not released
MySQL_test_ping_fail(t) ==
  /\ task[t].pc = "probe2"
  /\ task' = [task EXCEPT ![t] = Return(task[t], Answer(FALSE))]
  /\ UNCHANGED <<configs, connections, conns, pools, txs, db, stmt, registered, pool>>

\* DatabaseManager.testConnection(name), up to the first await of the
\* get(name) it awaits
testConnection(t, n) ==
  /\ Idle(t)
  /\ get_called(t, [Call(t, "get", n, 0) EXCEPT !.stack = <<"testConnection">>], n)
  /\ UNCHANGED <<configs, connections, txs, db, stmt, registered, pool>>

\* DatabaseManager.testConnection(name) after `await this.get(name)`: the
\* catch block returns false, else db.testConnection() is called and awaited
testConnection_got(t) ==
  /\ task[t].pc = "returned"
  /\ task[t].op = "get"
  /\ Top(task[t]) = "testConnection"
  /\ IF task[t].res.kind = "err"
       THEN /\ task' = [task EXCEPT ![t] = Return(task[t], Answer(FALSE))]
            /\ UNCHANGED <<conns, pools>>
       ELSE test_enter(t, task[t], task[t].res.conn)
  /\ UNCHANGED <<configs, connections, txs, db, stmt, registered, pool>>

\* getRegisteredDatabases()
getRegisteredDatabases == {n \in Names : configs[n] # NoConfig}

\* testAllConnections(): the names to visit are read once
testAllConnections(t) ==
  /\ Idle(t)
  /\ task' = [task EXCEPT ![t] =
        [Call(t, "testAllConnections", "", 0) EXCEPT
            !.pc = "loop", !.stack = <<"testAllConnections">>,
            !.todo = getRegisteredDatabases, !.results = <<>>]]
  /\ UNCHANGED <<configs, connections, conns, pools, txs, db, stmt, registered, pool>>

\* the loop of testAllConnections() without its test of config.enabled:
\* every name is handed to testConnection(name)
testAll_next_no_skip(t) ==
  /\ task[t].pc = "loop"
  /\ IF task[t].todo = {}
       THEN /\ task' = [task EXCEPT ![t] =
                 Return([task[t] EXCEPT !.results = <<>>], Answers(task[t].results))]
            /\ UNCHANGED <<conns, pools>>
       ELSE \E n \in task[t].todo :
              get_called(t, [task[t] EXCEPT !.op = "get", !.name = n,
                                !.stack = Append(@, "testConnection"),
                                !.todo = @ \ {n}], n)
  /\ UNCHANGED <<configs, connections, txs, db, stmt, registered, pool>>

\* one turn of the loop of testAllConnections(): a disabled name gets false
\* and the loop goes on, an enabled one is handed to testConnection(name);
\* after the last name the results are returned
testAll_next(t) ==
  /\ task[t].pc = "loop"
  /\ IF task[t].todo = {}
       THEN /\ task' = [task EXCEPT ![t] =
                 Return([task[t] EXCEPT !.results = <<>>], Answers(task[t].results))]
            /\ UNCHANGED <<conns, pools>>
       ELSE \E n \in task[t].todo :
              IF configs[n].enabled = FALSE
                THEN /\ task' = [task EXCEPT ![t].name = n,
                                             ![t].todo = @ \ {n},
                                             ![t].results = (n :> FALSE) @@ @]
                     /\ UNCHANGED <<conns, pools>>
                ELSE get_called(t, [task[t] EXCEPT !.op = "get", !.name = n,
                                       !.stack = Append(@, "testConnection"),
                                       !.todo = @ \ {n}], n)
  /\ UNCHANGED <<configs, connections, txs, db, stmt, registered, pool>>

\* testAllConnections(): `results[name] = await this.testConnection(name)`
testAll_collect(t) ==
  /\ task[t].pc = "returned"
  /\ Top(task[t]) = "testAllConnections"
  /\ task' = [task EXCEPT ![t] =
        [task[t] EXCEPT !.pc = "loop", !.op = "testAllConnections",
                        !.results = (task[t].name :> task[t].res.value) @@ @,
                        !.res = NoRes]]
  /\ UNCHANGED <<configs, connections, conns, pools, txs, db, stmt, registered, pool>>

\* --------------------------------------------------------- disconnectAll()
\* disconnect(name) as disconnectAll() calls it, up to its await
Kid(n) ==
  [c |-> connections[n], p |-> conns[connections[n]].pool,
   st |-> IF conns[connections[n]].pool = 0 THEN "delete" ELSE "closing"]

\* the disconnect(name) calls of the task that have not come back
InFlight(tk) == {n \in DOMAIN tk.kids : tk.kids[n].st \in {"closing", "delete"}}

\* a disconnect(name) of disconnectAll() went one step: Promise.all rejects
\* with the first rejection and resolves when every disconnect(name) has
\* returned; the other calls go on after a rejection
Settle(tk, n, st, err) ==
  LET ks == [tk.kids EXCEPT ![n].st = st]
      tk1 == [tk EXCEPT !.kids = ks]
      rest == InFlight(tk1)
      tk2 == IF rest = {} THEN [tk1 EXCEPT !.kids = <<>>] ELSE tk1
  IN  IF tk.pc # "all" THEN tk2
      ELSE IF st = "failed" THEN Finish(tk2, err)
      ELSE IF rest = {} THEN Finish(tk2, Returned(0, {}))
      ELSE tk2

\* disconnectAll(), up to its await: disconnect(name) is called for every key
\* of this.connections, each running up to its own await
disconnectAll(t) ==
  /\ Idle(t)
  /\ task[t].kids = <<>>
  /\ LET keys == {n \in Names : connections[n] # 0} IN
     /\ pools' = [p \in 1..Len(pools) |->
           IF \E n \in keys : conns[connections[n]].pool = p
             THEN [pools[p] EXCEPT !.ends = 1] ELSE pools[p]]
     /\ task' = [task EXCEPT ![t] =
           IF keys = {} THEN Finish(Call(t, "disconnectAll", "", 0), Returned(0, {}))
           ELSE [Call(t, "disconnectAll", "", 0) EXCEPT
                    !.pc = "all", !.kids = [n \in keys |-> Kid(n)]]]
  /\ UNCHANGED <<configs, connections, conns, txs, db, stmt, registered, pool>>

\* disconnect(name) of disconnectAll(): `await this.pool.end()` resolved
all_disconnect_ok(t, n) ==
  /\ n \in DOMAIN task[t].kids
  /\ task[t].kids[n].st = "closing"
  /\ pools' = [pools EXCEPT ![task[t].kids[n].p].state = "closed",
        ![task[t].kids[n].p].sess = [s \in 1..PoolMax |->
                                [@[s] EXCEPT !.intx = FALSE, !.pending = {}]]]
  /\ conns' = [conns EXCEPT ![task[t].kids[n].c].pool = 0,
                            ![task[t].kids[n].c].connected = FALSE]
  /\ task' = [task EXCEPT ![t].kids[n].st = "delete"]
  /\ UNCHANGED <<configs, connections, txs, db, stmt, registered, pool>>

\* ... rejected: disconnect(name) fails and disconnectAll() with it
all_disconnect_fail(t, n) ==
  /\ n \in DOMAIN task[t].kids
  /\ task[t].kids[n].st = "closing"
  /\ task' = [task EXCEPT ![t] =
        Settle(task[t], n, "failed",
               DatabaseError("Failed to disconnect", conns[task[t].kids[n].c].name,
                             conns[task[t].kids[n].c].type, TRUE))]
  /\ UNCHANGED <<configs, connections, conns, pools, txs, db, stmt, registered, pool>>

\* disconnect(name) of disconnectAll() after `await connection.disconnect()`
all_delete(t, n) ==
  /\ n \in DOMAIN task[t].kids
  /\ task[t].kids[n].st = "delete"
  /\ connections' = [connections EXCEPT ![n] = 0]
  /\ task' = [task EXCEPT ![t] = Settle(task[t], n, "done", NoRes)]
  /\ UNCHANGED <<configs, conns, pools, txs, db, stmt, registered, pool>>

\* ------------------------------------------- calls on a connection object
\* connection.testConnection() called by the holder of the object
conn_testConnection(t) ==
  /\ Idle(t)
  /\ task[t].ref # 0
  /\ test_enter(t, [Call(t, "testConnection", "", task[t].ref) EXCEPT
                       !.stack = <<"conn.testConnection">>], task[t].ref)
  /\ UNCHANGED <<configs, connections, txs, db, stmt, registered, pool>>

\* connect() without its early return: every call builds a pool
connect_always(t) ==
  /\ Idle(t)
  /\ task[t].ref # 0
  /\ connect_enter([t |-> t, rec |-> Call(t, "connect", "", task[t].ref)],
                   task[t].ref, conns)
  /\ UNCHANGED <<configs, connections, txs, db, stmt, registered, pool>>

\* connection.connect() called by the holder of the object
connect(t) ==
  /\ Idle(t)
  /\ task[t].ref # 0
  /\ IF conns[task[t].ref].connected /\ conns[task[t].ref].pool # 0
       THEN /\ task' = [task EXCEPT ![t] =
                 Finish(Call(t, "connect", "", task[t].ref), Returned(task[t].ref, {}))]
            /\ UNCHANGED <<conns, pools>>
       ELSE connect_enter([t |-> t, rec |-> Call(t, "connect", "", task[t].ref)],
                          task[t].ref, conns)
  /\ UNCHANGED <<configs, connections, txs, db, stmt, registered, pool>>

\* connection.connect() called by the holder of the object, the constructor
\* of the pool throwing: this.pool is not assigned and the catch block runs
connect_throws(t) ==
  /\ Idle(t)
  /\ task[t].ref # 0
  /\ ~(conns[task[t].ref].connected /\ conns[task[t].ref].pool # 0)
  /\ task' = [task EXCEPT ![t] =
        Finish(Call(t, "connect", "", task[t].ref), ConnectFailed(task[t].ref))]
  /\ UNCHANGED <<configs, connections, conns, pools, txs, db, stmt, registered, pool>>

\* connection.disconnect() called by the holder of the object
conn_disconnect(t) ==
  /\ Idle(t)
  /\ task[t].ref # 0
  /\ disconnect_enter([t |-> t, rec |-> Call(t, "conn.disconnect", "", task[t].ref)],
                      task[t].ref)
  /\ UNCHANGED <<configs, connections, conns, txs, db, stmt, registered, pool>>

\* query(sql, params) and execute(procedure, params), up to the first await:
\* `if (!this.pool || !this.connected) await this.connect()`, else the
\* statement is sent on this.pool
query(t, op) ==
  /\ Idle(t)
  /\ task[t].ref # 0
  /\ IF conns[task[t].ref].pool = 0 \/ ~conns[task[t].ref].connected
       THEN connect_enter([t |-> t, rec |-> Call(t, op, "", task[t].ref)],
                          task[t].ref, conns)
       ELSE /\ task' = [task EXCEPT ![t] =
                 [Call(t, op, "", task[t].ref) EXCEPT
                     !.pc = "await", !.p = conns[task[t].ref].pool]]
            /\ UNCHANGED <<conns, pools>>
  /\ UNCHANGED <<configs, connections, txs, db, stmt, registered, pool>>

\* the catch block of query() / execute()
QueryFailed(op, c) ==
  DatabaseError(IF op = "query" THEN "Query failed" ELSE "Stored procedure failed",
                conns[c].name, conns[c].type, TRUE)

\* query() / execute() after `await this.connect()`: the try block reads
\* this.pool and sends the statement (a null this.pool throws inside the try)
query_resume(t) ==
  /\ task[t].pc = "exec"
  /\ task' = [task EXCEPT ![t] =
        IF conns[task[t].c].pool = 0
          THEN Finish(task[t], QueryFailed(task[t].op, task[t].c))
          ELSE [task[t] EXCEPT !.pc = "await", !.p = conns[task[t].c].pool]]
  /\ UNCHANGED <<configs, connections, conns, pools, txs, db, stmt, registered, pool>>

\* the pool can serve a statement: it is open and has a session to run it on
Serves(p) ==
  /\ IF pools[p].type = "mssql" THEN pools[p].state = "open"
     ELSE pools[p].state # "closed"
  /\ FreeSessions(p) # {}

\* the awaited statement resolved: the rows the server has committed
stmt_ok(t, ty) ==
  /\ task[t].pc = "await"
  /\ conns[task[t].c].type = ty
  /\ Serves(task[t].p)
  /\ pools' = [pools EXCEPT ![task[t].p].state = "open"]
  /\ task' = [task EXCEPT ![t] =
        Finish(task[t], Returned(task[t].c, db[pools[task[t].p].name]))]
  /\ UNCHANGED <<configs, connections, conns, txs, db, stmt, registered, pool>>

\* a catch block of query() / execute() that gives the pool up: the pool is
\* closed and this.pool and this.connected are reset
stmt_fail_teardown(t, ty) ==
  /\ task[t].pc = "await"
  /\ conns[task[t].c].type = ty
  /\ pools' = [pools EXCEPT ![task[t].p].state = "closed"]
  /\ conns' = [conns EXCEPT ![task[t].c].pool = 0, ![task[t].c].connected = FALSE]
  /\ task' = [task EXCEPT ![t] =
        Finish(task[t], QueryFailed(task[t].op, task[t].c))]
  /\ UNCHANGED <<configs, connections, txs, db, stmt, registered, pool>>

\* the awaited statement rejected: the catch block wraps the driver's error
stmt_fail(t, ty) ==
  /\ task[t].pc = "await"
  /\ conns[task[t].c].type = ty
  /\ task' = [task EXCEPT ![t] =
        Finish(task[t], QueryFailed(task[t].op, task[t].c))]
  /\ UNCHANGED <<configs, connections, conns, pools, txs, db, stmt, registered, pool>>

MSSQL_query_ok(t) == stmt_ok(t, "mssql")
MSSQL_query_fail(t) == stmt_fail(t, "mssql")
MySQL_query_ok(t) == stmt_ok(t, "mysql")
MySQL_query_fail(t) == stmt_fail(t, "mysql")
PostgreSQL_query_ok(t) == stmt_ok(t, "postgresql")
PostgreSQL_query_fail(t) == stmt_fail(t, "postgresql")

\* ------------------------------------------------------------ the server
\* a statement that writes row w runs on session s of pool p: inside the
\* transaction open on that session, or on its own (autocommit)
SessionWrite(p, s, w) ==
  IF pools[p].sess[s].intx
    THEN /\ pools' = [pools EXCEPT ![p].sess[s].pending = @ \cup {w}]
         /\ UNCHANGED db
    ELSE /\ db' = [db EXCEPT ![pools[p].name] = @ \cup {w}]
         /\ UNCHANGED pools

\* COMMIT ran on session s, and the session is handed back when `free`
SessionCommit(p, s, free) ==
  /\ db' = [db EXCEPT ![pools[p].name] = @ \cup pools[p].sess[s].pending]
  /\ pools' = [pools EXCEPT ![p].sess[s] =
        [owner |-> IF free THEN "" ELSE @.owner, intx |-> FALSE, pending |-> {}]]

\* ROLLBACK ran on session s, or the server gave the transaction up
SessionRollback(p, s, free) ==
  /\ pools' = [pools EXCEPT ![p].sess[s] =
        [owner |-> IF free THEN "" ELSE @.owner, intx |-> FALSE, pending |-> {}]]
  /\ UNCHANGED db

Alive(p) == pools[p].state # "closed"

\* ------------------------------------------------------ beginTransaction()
NewTx(c, p, s) ==
  [NoTx EXCEPT !.c = c, !.type = conns[c].type, !.p = p, !.s = s, !.acquired = TRUE]

\* beginTransaction(), up to its first await
beginTransaction(t) ==
  /\ Idle(t)
  /\ task[t].ref # 0
  /\ txs[t] = NoTx
  /\ IF conns[task[t].ref].pool = 0 \/ ~conns[task[t].ref].connected
       THEN connect_enter([t |-> t, rec |-> Call(t, "beginTransaction", "", task[t].ref)],
                          task[t].ref, conns)
       ELSE /\ task' = [task EXCEPT ![t] =
                 [Call(t, "beginTransaction", "", task[t].ref) EXCEPT
                     !.pc = "acquiring", !.p = conns[task[t].ref].pool]]
            /\ UNCHANGED <<conns, pools>>
  /\ UNCHANGED <<configs, connections, txs, db, stmt, registered, pool>>

\* beginTransaction() after `await this.connect()`: this.pool is read outside
\* any try block, a null this.pool throws a TypeError
begin_resume(t) ==
  /\ task[t].pc = "acquire"
  /\ task' = [task EXCEPT ![t] =
        IF conns[task[t].c].pool = 0 THEN Finish(task[t], DriverError)
        ELSE [task[t] EXCEPT !.pc = "acquiring", !.p = conns[task[t].c].pool]]
  /\ UNCHANGED <<configs, connections, conns, pools, txs, db, stmt, registered, pool>>

\* MSSQLConnection.beginTransaction: `await transaction.begin()` resolved;
\* the driver took a pool connection and began the transaction on it
MSSQL_begin_ok(t) ==
  /\ task[t].pc = "acquiring"
  /\ conns[task[t].c].type = "mssql"
  /\ pools[task[t].p].state = "open"
  /\ \E s \in FreeSessions(task[t].p) :
       /\ pools' = [pools EXCEPT ![task[t].p].sess[s] =
             [owner |-> t, intx |-> TRUE, pending |-> {}]]
       /\ txs' = [txs EXCEPT ![t] =
             [NewTx(task[t].c, task[t].p, s) EXCEPT !.handle = TRUE]]
  /\ task' = [task EXCEPT ![t] = Finish(task[t], Returned(task[t].c, {}))]
  /\ UNCHANGED <<configs, connections, conns, db, stmt, registered, pool>>

\* ... rejected: nothing catches the driver's error
MSSQL_begin_fail(t) ==
  /\ task[t].pc = "acquiring"
  /\ conns[task[t].c].type = "mssql"
  /\ task' = [task EXCEPT ![t] = Finish(task[t], DriverError)]
  /\ UNCHANGED <<configs, connections, conns, pools, txs, db, stmt, registered, pool>>

\* MySQL / PostgreSQL beginTransaction: `await this.pool.getConnection()` /
\* `await this.pool.connect()` resolved with a session, and
\* connection.beginTransaction() / client.query('BEGIN') is awaited
session_acquired(t, ty) ==
  /\ task[t].pc = "acquiring"
  /\ conns[task[t].c].type = ty
  /\ Alive(task[t].p)
  /\ \E s \in FreeSessions(task[t].p) :
       /\ pools' = [pools EXCEPT ![task[t].p].sess[s].owner = t,
                                 ![task[t].p].state = "open"]
       /\ txs' = [txs EXCEPT ![t] = NewTx(task[t].c, task[t].p, s)]
       /\ task' = [task EXCEPT ![t].pc = "begin", ![t].s = s]
  /\ UNCHANGED <<configs, connections, conns, db, stmt, registered, pool>>

\* ... rejected: nothing catches the driver's error
session_refused(t, ty) ==
  /\ task[t].pc = "acquiring"
  /\ conns[task[t].c].type = ty
  /\ task' = [task EXCEPT ![t] = Finish(task[t], DriverError)]
  /\ UNCHANGED <<configs, connections, conns, pools, txs, db, stmt, registered, pool>>

\* `await connection.beginTransaction()` / `await client.query('BEGIN')`
\* resolved: the handle is returned
begin_ok(t, ty) ==
  /\ task[t].pc = "begin"
  /\ conns[task[t].c].type = ty
  /\ Alive(task[t].p)
  /\ pools' = [pools EXCEPT ![task[t].p].sess[task[t].s].intx = TRUE]
  /\ txs' = [txs EXCEPT ![t].handle = TRUE]
  /\ task' = [task EXCEPT ![t] = Finish(task[t], Returned(task[t].c, {}))]
  /\ UNCHANGED <<configs, connections, conns, db, stmt, registered, pool>>

\* ... rejected: the error leaves beginTransaction() as it is, nothing
\* releases the session
begin_fail(t, ty) ==
  /\ task[t].pc = "begin"
  /\ conns[task[t].c].type = ty
  /\ task' = [task EXCEPT ![t] = Finish(task[t], DriverError)]
  /\ UNCHANGED <<configs, connections, conns, pools, txs, db, stmt, registered, pool>>

MySQL_begin_getConnection_ok(t) == session_acquired(t, "mysql")
MySQL_begin_getConnection_fail(t) == session_refused(t, "mysql")
MySQL_begin_ok(t) == begin_ok(t, "mysql")
MySQL_begin_fail(t) == begin_fail(t, "mysql")
PostgreSQL_begin_client_ok(t) == session_acquired(t, "postgresql")
PostgreSQL_begin_client_fail(t) == session_refused(t, "postgresql")
PostgreSQL_begin_ok(t) == begin_ok(t, "postgresql")
PostgreSQL_begin_fail(t) == begin_fail(t, "postgresql")

\* ------------------------------------------------- the Transaction handle
\* A call on a handle is one step: the statement is sent on the dedicated
\* session and its outcome comes back.
Holds(t, ty) ==
  /\ Idle(t)
  /\ txs[t].handle
  /\ txs[t].type = ty

\* the first commit() / rollback() on a handle decides `ended` and `wend`
Ended(x, how) ==
  IF txs[x].ended = "" THEN [txs[x] EXCEPT !.ended = how, !.wend = txs[x].writes]
  ELSE txs[x]

TxQueryFailed(x) ==
  DatabaseError("Transaction query failed", conns[txs[x].c].name, conns[txs[x].c].type, TRUE)

\* a handle.query that sends its statement on the pool, outside the
\* transaction of the dedicated session
tx_query_on_pool(t, ty) ==
  /\ Holds(t, ty)
  /\ txs[t].writes < MaxWrites
  /\ Alive(txs[t].p)
  /\ db' = [db EXCEPT ![pools[txs[t].p].name] = @ \cup {<<t, txs[t].writes + 1>>}]
  /\ txs' = [txs EXCEPT ![t].writes = @ + 1]
  /\ task' = [task EXCEPT ![t] =
        Finish(Call(t, "tx.query", "", txs[t].c), Returned(txs[t].c, {}))]
  /\ UNCHANGED <<configs, connections, conns, pools, stmt, registered, pool>>

\* handle.query of MySQLConnection / PostgreSQLConnection resolved:
\* connection.execute / client.query ran on the dedicated session
tx_query_ok(t, ty) ==
  /\ Holds(t, ty)
  /\ txs[t].writes < MaxWrites
  /\ Alive(txs[t].p)
  /\ SessionWrite(txs[t].p, txs[t].s,
                  <<t, txs[t].writes + 1>>)
  /\ txs' = [txs EXCEPT ![t].writes = @ + 1]
  /\ task' = [task EXCEPT ![t] =
        Finish(Call(t, "tx.query", "", txs[t].c), Returned(txs[t].c, {}))]
  /\ UNCHANGED <<configs, connections, conns, stmt, registered, pool>>

\* ... rejected: the catch block wraps the driver's error
tx_query_fail(t, ty) ==
  /\ Holds(t, ty)
  /\ txs' = [txs EXCEPT ![t].failed = TRUE]
  /\ task' = [task EXCEPT ![t] =
        Finish(Call(t, "tx.query", "", txs[t].c), TxQueryFailed(t))]
  /\ UNCHANGED <<configs, connections, conns, pools, db, stmt, registered, pool>>

\* handle.commit: `await connection.commit()` resolved, `finally` releases
tx_commit_ok(t, ty) ==
  /\ Holds(t, ty)
  /\ Alive(txs[t].p)
  /\ SessionCommit(txs[t].p, txs[t].s, TRUE)
  /\ txs' = [txs EXCEPT ![t] = Ended(t, "committed")]
  /\ task' = [task EXCEPT ![t] =
        Finish(Call(t, "commit", "", txs[t].c), Returned(txs[t].c, {}))]
  /\ UNCHANGED <<configs, connections, conns, stmt, registered, pool>>

\* a handle.commit without the `finally`: a rejected commit leaves the
\* session checked out
tx_commit_fail_no_finally(t, ty) ==
  /\ Holds(t, ty)
  /\ SessionRollback(txs[t].p, txs[t].s, FALSE)
  /\ txs' = [txs EXCEPT ![t] = Ended(t, "commit failed")]
  /\ task' = [task EXCEPT ![t] = Finish(Call(t, "commit", "", txs[t].c), DriverError)]
  /\ UNCHANGED <<configs, connections, conns, stmt, registered, pool>>

\* handle.commit: `await connection.commit()` rejected, `finally` releases and
\* the driver's error goes on to the caller
tx_commit_fail(t, ty) ==
  /\ Holds(t, ty)
  /\ SessionRollback(txs[t].p, txs[t].s, TRUE)
  /\ txs' = [txs EXCEPT ![t] = Ended(t, "commit failed")]
  /\ task' = [task EXCEPT ![t] = Finish(Call(t, "commit", "", txs[t].c), DriverError)]
  /\ UNCHANGED <<configs, connections, conns, stmt, registered, pool>>

\* handle.rollback: `await connection.rollback()` resolved, `finally` releases
tx_rollback_ok(t, ty) ==
  /\ Holds(t, ty)
  /\ Alive(txs[t].p)
  /\ SessionRollback(txs[t].p, txs[t].s, TRUE)
  /\ txs' = [txs EXCEPT ![t] = Ended(t, "rolled back")]
  /\ task' = [task EXCEPT ![t] =
        Finish(Call(t, "rollback", "", txs[t].c), Returned(txs[t].c, {}))]
  /\ UNCHANGED <<configs, connections, conns, stmt, registered, pool>>

\* handle.rollback: `await connection.rollback()` rejected, `finally` releases
tx_rollback_fail(t, ty) ==
  /\ Holds(t, ty)
  /\ SessionRollback(txs[t].p, txs[t].s, TRUE)
  /\ txs' = [txs EXCEPT ![t] = Ended(t, "rollback failed")]
  /\ task' = [task EXCEPT ![t] = Finish(Call(t, "rollback", "", txs[t].c), DriverError)]
  /\ UNCHANGED <<configs, connections, conns, stmt, registered, pool>>

MySQL_tx_query_ok(t) == tx_query_ok(t, "mysql")
MySQL_tx_query_fail(t) == tx_query_fail(t, "mysql")
MySQL_tx_commit_ok(t) == tx_commit_ok(t, "mysql")
MySQL_tx_commit_fail(t) == tx_commit_fail(t, "mysql")
MySQL_tx_rollback_ok(t) == tx_rollback_ok(t, "mysql")
MySQL_tx_rollback_fail(t) == tx_rollback_fail(t, "mysql")
PostgreSQL_tx_query_ok(t) == tx_query_ok(t, "postgresql")
PostgreSQL_tx_query_fail(t) == tx_query_fail(t, "postgresql")
PostgreSQL_tx_commit_ok(t) == tx_commit_ok(t, "postgresql")
PostgreSQL_tx_commit_fail(t) == tx_commit_fail(t, "postgresql")
PostgreSQL_tx_rollback_ok(t) == tx_rollback_ok(t, "postgresql")
PostgreSQL_tx_rollback_fail(t) == tx_rollback_fail(t, "postgresql")

\* The handle of MSSQLConnection wraps the driver's Transaction object, which
\* holds its pool connection from begin() until commit() or rollback() has run
\* (with either outcome) and refuses requests when it holds none.
\* handle.query: `await request.query(sql)` resolved
MSSQL_tx_query_ok(t) ==
  /\ Holds(t, "mssql")
  /\ txs[t].acquired
  /\ txs[t].writes < MaxWrites
  /\ Alive(txs[t].p)
  /\ SessionWrite(txs[t].p, txs[t].s,
                  <<t, txs[t].writes + 1>>)
  /\ txs' = [txs EXCEPT ![t].writes = @ + 1]
  /\ task' = [task EXCEPT ![t] =
        Finish(Call(t, "tx.query", "", txs[t].c), Returned(txs[t].c, {}))]
  /\ UNCHANGED <<configs, connections, conns, stmt, registered, pool>>

\* handle.query: rejected; no try block, the driver's error reaches the caller
MSSQL_tx_query_fail(t) ==
  /\ Holds(t, "mssql")
  /\ txs' = [txs EXCEPT ![t].failed = TRUE]
  /\ task' = [task EXCEPT ![t] = Finish(Call(t, "tx.query", "", txs[t].c), DriverError)]
  /\ UNCHANGED <<configs, connections, conns, pools, db, stmt, registered, pool>>

\* handle.commit: `await transaction.commit()` resolved
MSSQL_tx_commit_ok(t) ==
  /\ Holds(t, "mssql")
  /\ txs[t].acquired
  /\ Alive(txs[t].p)
  /\ SessionCommit(txs[t].p, txs[t].s, TRUE)
  /\ txs' = [txs EXCEPT ![t] = [Ended(t, "committed") EXCEPT !.acquired = FALSE]]
  /\ task' = [task EXCEPT ![t] =
        Finish(Call(t, "commit", "", txs[t].c), Returned(txs[t].c, {}))]
  /\ UNCHANGED <<configs, connections, conns, stmt, registered, pool>>

\* handle.commit: `await transaction.commit()` rejected
MSSQL_tx_commit_fail(t) ==
  /\ Holds(t, "mssql")
  /\ IF txs[t].acquired
       THEN SessionRollback(txs[t].p, txs[t].s, TRUE)
       ELSE UNCHANGED <<pools, db>>
  /\ txs' = [txs EXCEPT ![t] = [Ended(t, "commit failed") EXCEPT !.acquired = FALSE]]
  /\ task' = [task EXCEPT ![t] = Finish(Call(t, "commit", "", txs[t].c), DriverError)]
  /\ UNCHANGED <<configs, connections, conns, stmt, registered, pool>>

\* handle.rollback: `await transaction.rollback()` resolved
MSSQL_tx_rollback_ok(t) ==
  /\ Holds(t, "mssql")
  /\ txs[t].acquired
  /\ Alive(txs[t].p)
  /\ SessionRollback(txs[t].p, txs[t].s, TRUE)
  /\ txs' = [txs EXCEPT ![t] = [Ended(t, "rolled back") EXCEPT !.acquired = FALSE]]
  /\ task' = [task EXCEPT ![t] =
        Finish(Call(t, "rollback", "", txs[t].c), Returned(txs[t].c, {}))]
  /\ UNCHANGED <<configs, connections, conns, stmt, registered, pool>>

\* handle.rollback: `await transaction.rollback()` rejected
MSSQL_tx_rollback_fail(t) ==
  /\ Holds(t, "mssql")
  /\ IF txs[t].acquired
       THEN SessionRollback(txs[t].p, txs[t].s, TRUE)
       ELSE UNCHANGED <<pools, db>>
  /\ txs' = [txs EXCEPT ![t] = [Ended(t, "rollback failed") EXCEPT !.acquired = FALSE]]
  /\ task' = [task EXCEPT ![t] = Finish(Call(t, "rollback", "", txs[t].c), DriverError)]
  /\ UNCHANGED <<configs, connections, conns, stmt, registered, pool>>

\* ------------------------------------- the single-database helper (database.ts)
\* The helper keeps one mssql ConnectionPool in the module variable `pool`.
\* Its pools are native pools like the others, of no registered name.
LegacyPool == [name |-> "", type |-> "mssql"]

\* a call that returned the pool p (0: null)
Given(p) == [NoRes EXCEPT !.kind = "ok", !.pool = p]

\* `const pool = await getPool()` has returned p to query() / execute(), or
\* getPool() returns p to its caller: pool.request() on null throws
Receive(tk, p) ==
  IF tk.op = "getPool" THEN Finish(tk, Given(p))
  ELSE IF p = 0 THEN Finish(tk, DriverError)
  ELSE [tk EXCEPT !.pc = "request", !.p = p]

\* getPool(), called as such or by query() / execute() (op), up to its await:
\* `if (!pool) { pool = new sql.ConnectionPool(dbConfig); await pool.connect() }`,
\* else `return pool`
getPool(t, op) ==
  /\ Idle(t)
  /\ IF pool = 0
       THEN /\ Len(pools) < MaxPools
            /\ pools' = Append(pools, NewPool(LegacyPool))
            /\ pool' = Len(pools) + 1
            /\ task' = [task EXCEPT ![t] =
                  [Call(t, op, "", 0) EXCEPT !.pc = "pool.connect", !.p = Len(pools) + 1]]
       ELSE /\ task' = [task EXCEPT ![t] = Receive(Call(t, op, "", 0), pool)]
            /\ UNCHANGED <<pools, pool>>
  /\ UNCHANGED <<configs, connections, conns, txs, db, stmt, registered>>

\* `await pool.connect()` resolved: getPool() returns what the variable holds now
getPool_connect_ok(t) ==
  /\ task[t].pc = "pool.connect"
  /\ pools[task[t].p].state # "closed"
  /\ pools' = [pools EXCEPT ![task[t].p].state = "open"]
  /\ task' = [task EXCEPT ![t] = Receive(task[t], pool)]
  /\ UNCHANGED <<configs, connections, conns, txs, db, stmt, registered, pool>>

\* ... rejected: the error leaves getPool() and its caller; `pool` keeps the
\* ConnectionPool
getPool_connect_fail(t) ==
  /\ task[t].pc = "pool.connect"
  /\ task' = [task EXCEPT ![t] = Finish(task[t], DriverError)]
  /\ UNCHANGED <<configs, connections, conns, pools, txs, db, stmt, registered, pool>>

\* query() / execute(): `await request.query(query)` resolved
request_ok(t) ==
  /\ task[t].pc = "request"
  /\ pools[task[t].p].state = "open"
  /\ task' = [task EXCEPT ![t] = Finish(task[t], Returned(0, {}))]
  /\ UNCHANGED <<configs, connections, conns, pools, txs, db, stmt, registered, pool>>

\* ... rejected (the pool is not connected, or the statement failed)
request_fail(t) ==
  /\ task[t].pc = "request"
  /\ task' = [task EXCEPT ![t] = Finish(task[t], DriverError)]
  /\ UNCHANGED <<configs, connections, conns, pools, txs, db, stmt, registered, pool>>

\* closePool(), up to its await: `if (pool) { await pool.close(); ...`
closePool(t) ==
  /\ Idle(t)
  /\ IF pool = 0
       THEN /\ task' = [task EXCEPT ![t] =
                  Finish(Call(t, "closePool", "", 0), Given(0))]
            /\ UNCHANGED pools
       ELSE /\ pools' = [pools EXCEPT ![pool].ends = 1]
            /\ task' = [task EXCEPT ![t] =
                  [Call(t, "closePool", "", 0) EXCEPT !.pc = "pool.close", !.p = pool]]
  /\ UNCHANGED <<configs, connections, conns, txs, db, stmt, registered, pool>>

\* `await pool.close()` resolved: `pool = null`
closePool_ok(t) ==
  /\ task[t].pc = "pool.close"
  /\ pools' = [pools EXCEPT ![task[t].p].state = "closed"]
  /\ pool' = 0
  /\ task' = [task EXCEPT ![t] = Finish(task[t], Given(0))]
  /\ UNCHANGED <<configs, connections, conns, txs, db, stmt, registered>>

\* ... rejected
closePool_fail(t) ==
  /\ task[t].pc = "pool.close"
  /\ task' = [task EXCEPT ![t] = Finish(task[t], DriverError)]
  /\ UNCHANGED <<configs, connections, conns, pools, txs, db, stmt, registered, pool>>

\* ------------------------------------------------- named parameters
\* SQL templates are sequences over Alphabet; parameter names are made of
\* word characters, as \w of a JavaScript regular expression has them
Alphabet == {":", "@", "a", "b"}
IsWord(ch) == ch \in {"a", "b", "_", "0", "1", "2", "3", "4", "5", "6", "7", "8", "9"}

Templates == UNION {[1..n -> Alphabet] : n \in 0..MaxLen}
Keys == {<<"a">>, <<"b">>, <<"a", "b">>}
Values == {"x", "y"}

\* the params objects: entries with distinct keys, in insertion order
Params ==
  {p \in UNION {[1..n -> [key : Keys, value : Values]] : n \in 0..Cardinality(Keys)} :
     \A i, j \in DOMAIN p : i # j => p[i].key # p[j].key}

\* params[key]
ValueOf(params, key) ==
  params[CHOOSE i \in DOMAIN params : params[i].key = key].value

\* Object.keys(params).sort((a, b) => b.length - a.length): longest first,
\* keys of equal length stay in insertion order
RECURSIVE SortByLength(_)
SortByLength(ks) ==
  IF ks = <<>> THEN <<>>
  ELSE LET rest == SortByLength(Tail(ks))
           i == Cardinality({j \in DOMAIN rest : Len(rest[j]) > Len(Head(ks))})
       IN SubSeq(rest, 1, i) \o <<Head(ks)>> \o SubSeq(rest, i + 1, Len(rest))

sortedParams(params) == SortByLength([i \in DOMAIN params |-> params[i].key])

\* \b between s[i] and s[i+1]
WordBoundary(s, i) ==
  (i >= 1 /\ i <= Len(s) /\ IsWord(s[i])) # (i + 1 <= Len(s) /\ IsWord(s[i + 1]))

\* the regular expression `:${key}` without its \b: any text that begins
\* with the key matches
MatchesAt_no_boundary(s, i, key) ==
  /\ i + Len(key) <= Len(s)
  /\ s[i] = ":"
  /\ \A j \in 1..Len(key) : s[i + j] = key[j]

\* new RegExp(`:${key}\\b`) matches s at position i
MatchesAt(s, i, key) ==
  /\ i + Len(key) <= Len(s)
  /\ s[i] = ":"
  /\ \A j \in 1..Len(key) : s[i + j] = key[j]
  /\ WordBoundary(s, i + Len(key))

\* what the callback of replace() returns: '?' or `$${paramIndex++}`
Marker(ty, paramIndex) ==
  IF ty = "mysql" THEN <<"?">> ELSE <<"$", ToString(paramIndex)>>

\* formattedSql.replace(regex, callback) with the global flag, from position i
\* of s on: each match pushes params[key] and is replaced by the marker
RECURSIVE replace(_, _, _, _, _, _)
replace(ty, s, i, key, value, acc) ==
  IF i > Len(s) THEN acc
  ELSE IF MatchesAt(s, i, key)
    THEN replace(ty, s, i + 1 + Len(key), key, value,
                 [sql |-> acc.sql \o Marker(ty, acc.paramIndex),
                  values |-> Append(acc.values, value),
                  paramIndex |-> IF ty = "mysql" THEN acc.paramIndex
                                 ELSE acc.paramIndex + 1])
    ELSE replace(ty, s, i + 1, key, value, [acc EXCEPT !.sql = Append(@, s[i])])

\* the loop `for (const key of sortedParams)`
RECURSIVE forKeys(_, _, _, _)
forKeys(ty, keys, params, acc) ==
  IF keys = <<>> THEN acc
  ELSE forKeys(ty, Tail(keys), params,
               replace(ty, acc.sql, 1, Head(keys), ValueOf(params, Head(keys)),
                       [acc EXCEPT !.sql = <<>>]))

\* convertNamedParams(sql, params) of the two classes
convertNamedParams(ty, sql, params) ==
  forKeys(ty, sortedParams(params), params,
          [sql |-> sql, values |-> <<>>, paramIndex |-> 1])

MySQL_convertNamedParams(sql, params) == convertNamedParams("mysql", sql, params)
PostgreSQL_convertNamedParams(sql, params) == convertNamedParams("postgresql", sql, params)

\* MySQLConnection.query, the try block up to `this.pool.execute(sql, values)`
MySQL_query_send ==
  /\ stmt.type = ""
  /\ stmt' = [stmt EXCEPT !.type = "mysql",
                          !.text = MySQL_convertNamedParams(stmt.sql, stmt.params).sql,
                          !.values = MySQL_convertNamedParams(stmt.sql, stmt.params).values]
  /\ UNCHANGED <<configs, connections, conns, pools, txs, db, task, registered, pool>>

\* PostgreSQLConnection.query, the try block up to `this.pool.query(sql, values)`
PostgreSQL_query_send ==
  /\ stmt.type = ""
  /\ stmt' = [stmt EXCEPT !.type = "postgresql",
                          !.text = PostgreSQL_convertNamedParams(stmt.sql, stmt.params).sql,
                          !.values = PostgreSQL_convertNamedParams(stmt.sql, stmt.params).values]
  /\ UNCHANGED <<configs, connections, conns, pools, txs, db, task, registered, pool>>

\* MSSQLConnection.query, the try block up to `request.query(query)`:
\* request.input(key, value) for every entry, the text is sent as it is
MSSQL_query_send ==
  /\ stmt.type = ""
  /\ stmt' = [stmt EXCEPT !.type = "mssql", !.text = stmt.sql, !.inputs = stmt.params]
  /\ UNCHANGED <<configs, connections, conns, pools, txs, db, task, registered, pool>>

\* one run registers configurations of one backend class
OneBackend(cfg) == \A n \in Names : configs[n] = NoConfig \/ configs[n].type = cfg.type

\* the name the callers of Spec and SpecConn register
First == "primary"

Register == \E cfg \in Config : cfg.name = First /\ OneBackend(cfg) /\ register(cfg)
Get(t) == \E n \in Names : get(t, n)
ConnectDone(t) ==
  \/ MSSQL_connect_ok(t)
  \/ MSSQL_connect_fail(t)
  \/ MySQL_connect_getConnection_ok(t)
  \/ MySQL_connect_getConnection_fail(t)
  \/ MySQL_connect_ping_ok(t)
  \/ MySQL_connect_ping_fail(t)
  \/ PostgreSQL_connect_client_ok(t)
  \/ PostgreSQL_connect_client_fail(t)
  \/ PostgreSQL_connect_select_ok(t)
  \/ PostgreSQL_connect_select_fail(t)
Disconnect(t) == \E n \in Names : disconnect(t, n)
DisconnectDone(t) == disconnect_ok(t) \/ disconnect_fail(t)
ConnCall(t) == connect(t) \/ conn_disconnect(t)
Query(t) == query(t, "query") \/ query(t, "execute")
QueryDone(t) ==
  \/ query_resume(t)
  \/ MSSQL_query_ok(t)
  \/ MSSQL_query_fail(t)
  \/ MySQL_query_ok(t)
  \/ MySQL_query_fail(t)
  \/ PostgreSQL_query_ok(t)
  \/ PostgreSQL_query_fail(t)
BeginDone(t) ==
  \/ begin_resume(t)
  \/ MSSQL_begin_ok(t)
  \/ MSSQL_begin_fail(t)
  \/ MySQL_begin_getConnection_ok(t)
  \/ MySQL_begin_getConnection_fail(t)
  \/ MySQL_begin_ok(t)
  \/ MySQL_begin_fail(t)
  \/ PostgreSQL_begin_client_ok(t)
  \/ PostgreSQL_begin_client_fail(t)
  \/ PostgreSQL_begin_ok(t)
  \/ PostgreSQL_begin_fail(t)
TxCall(t) ==
  \/ MSSQL_tx_query_ok(t)
  \/ MSSQL_tx_query_fail(t)
  \/ MSSQL_tx_commit_ok(t)
  \/ MSSQL_tx_commit_fail(t)
  \/ MSSQL_tx_rollback_ok(t)
  \/ MSSQL_tx_rollback_fail(t)
  \/ MySQL_tx_query_ok(t)
  \/ MySQL_tx_query_fail(t)
  \/ MySQL_tx_commit_ok(t)
  \/ MySQL_tx_commit_fail(t)
  \/ MySQL_tx_rollback_ok(t)
  \/ MySQL_tx_rollback_fail(t)
  \/ PostgreSQL_tx_query_ok(t)
  \/ PostgreSQL_tx_query_fail(t)
  \/ PostgreSQL_tx_commit_ok(t)
  \/ PostgreSQL_tx_commit_fail(t)
  \/ PostgreSQL_tx_rollback_ok(t)
  \/ PostgreSQL_tx_rollback_fail(t)

\* The registry: configurations are registered and replaced while the callers
\* get and disconnect connections by name, concurrently.
Next ==
  \/ Register
  \/ \E t \in Tasks : Get(t)
  \/ \E t \in Tasks : get_store(t)
  \/ \E t \in Tasks : ConnectDone(t)
  \/ \E t \in Tasks : Disconnect(t)
  \/ \E t \in Tasks : DisconnectDone(t)
  \/ \E t \in Tasks : disconnect_delete(t)

Spec == Init /\ [][Next]_vars

\* One caller of one registered, enabled database: it takes the connection
\* object from the manager and works on it and on its transaction handle,
\* one call after the other.
ProbeDone(t) ==
  \/ test_returned(t)
  \/ MySQL_test_getConnection_ok(t)
  \/ MySQL_test_getConnection_fail(t)
  \/ MySQL_test_ping_ok(t)
  \/ MySQL_test_ping_fail(t)
TestDone(t) ==
  \/ test_resume(t)
  \/ ProbeDone(t)

RegisterOnce ==
  \E cfg \in Config :
    /\ cfg.name = First
    /\ cfg.enabled
    /\ \A n \in Names : configs[n] = NoConfig
    /\ register(cfg)

Caller == "t1"

NextConn ==
  \/ RegisterOnce
  \/ get(Caller, First)
  \/ get_store(Caller)
  \/ ConnectDone(Caller)
  \/ ConnCall(Caller)
  \/ DisconnectDone(Caller)
  \/ Query(Caller)
  \/ QueryDone(Caller)
  \/ beginTransaction(Caller)
  \/ BeginDone(Caller)
  \/ TxCall(Caller)

SpecConn == Init /\ [][NextConn]_vars

\* One caller registers two names, once each and between its calls, and tests
\* and disconnects them.
RegisterNew(t) ==
  \E cfg \in Config :
    Idle(t) /\ configs[cfg.name] = NoConfig /\ OneBackend(cfg) /\ register(cfg)
TestConnection(t) == \E n \in Names : testConnection(t, n)
TestAll(t) ==
  \/ testAllConnections(t)
  \/ testAll_next(t)
  \/ testAll_collect(t)
StatementDone(t) ==
  \/ MSSQL_query_ok(t)
  \/ MSSQL_query_fail(t)
  \/ PostgreSQL_query_ok(t)
  \/ PostgreSQL_query_fail(t)
DisconnectAllDone(t) ==
  \E n \in Names :
    \/ all_disconnect_ok(t, n)
    \/ all_disconnect_fail(t, n)
    \/ all_delete(t, n)

NextMgr ==
  \/ RegisterNew(Caller)
  \/ get_store(Caller)
  \/ ConnectDone(Caller)
  \/ TestConnection(Caller)
  \/ testConnection_got(Caller)
  \/ ProbeDone(Caller)
  \/ StatementDone(Caller)
  \/ TestAll(Caller)
  \/ Disconnect(Caller)
  \/ DisconnectDone(Caller)
  \/ disconnect_delete(Caller)
  \/ disconnectAll(Caller)
  \/ DisconnectAllDone(Caller)

SpecMgr == Init /\ [][NextMgr]_vars

\* One caller tests the connection of a name through the manager and through
\* the object get() gave it, which it also connects and disconnects; between
\* its calls the name is registered again.
RegisterBetween(t) == Idle(t) /\ Register

NextTest ==
  \/ RegisterBetween(Caller)
  \/ Get(Caller)
  \/ get_store(Caller)
  \/ ConnectDone(Caller)
  \/ connect(Caller)
  \/ connect_throws(Caller)
  \/ conn_disconnect(Caller)
  \/ DisconnectDone(Caller)
  \/ TestConnection(Caller)
  \/ testConnection_got(Caller)
  \/ conn_testConnection(Caller)
  \/ TestDone(Caller)
  \/ StatementDone(Caller)
  \/ TestAll(Caller)

SpecTest == Init /\ [][NextTest]_vars

\* Two callers of one registered, enabled database take the connection object
\* and begin transactions and send statements on it; no transaction is ever
\* committed or rolled back.
QuerySettled(t) ==
  \/ MSSQL_query_ok(t)
  \/ MSSQL_query_fail(t)
  \/ MySQL_query_ok(t)
  \/ MySQL_query_fail(t)
  \/ PostgreSQL_query_ok(t)
  \/ PostgreSQL_query_fail(t)
BeginSettled(t) ==
  \/ MSSQL_begin_ok(t)
  \/ MSSQL_begin_fail(t)
  \/ MySQL_begin_getConnection_ok(t)
  \/ MySQL_begin_getConnection_fail(t)
  \/ MySQL_begin_ok(t)
  \/ MySQL_begin_fail(t)
  \/ PostgreSQL_begin_client_ok(t)
  \/ PostgreSQL_begin_client_fail(t)
  \/ PostgreSQL_begin_ok(t)
  \/ PostgreSQL_begin_fail(t)

NextLive ==
  \/ RegisterOnce
  \/ \E t \in Tasks : get(t, First)
  \/ \E t \in Tasks : get_store(t)
  \/ \E t \in Tasks : ConnectDone(t)
  \/ \E t \in Tasks : query(t, "query")
  \/ \E t \in Tasks : QuerySettled(t)
  \/ \E t \in Tasks : beginTransaction(t)
  \/ \E t \in Tasks : BeginSettled(t)

\* What is certain to happen.  A method goes on once the promise it awaits has
\* settled (get_store).  Every awaited driver call settles, the server
\* answering or the connection breaking, with two exceptions: a request for a
\* session of a mysql2 pool created with waitForConnections and queueLimit 0
\* and no timeout (mysql.ts 32-43) is served when a session is free and
\* otherwise waits in the queue of the pool, in beginTransaction()
\* (pool.getConnection) and in query() (pool.execute).  The mssql pool gives
\* up after acquireTimeoutMillis (mssql.ts 42), the pg pool after
\* connectionTimeoutMillis (mssql.ts 276).  Callers are not obliged to call.
Settles(t) ==
  /\ WF_vars(get_store(t))
  /\ WF_vars(ConnectDone(t))
  /\ WF_vars(MSSQL_query_ok(t) \/ MSSQL_query_fail(t))
  /\ WF_vars(PostgreSQL_query_ok(t) \/ PostgreSQL_query_fail(t))
  /\ WF_vars(MySQL_query_ok(t))
  /\ WF_vars(MSSQL_begin_ok(t) \/ MSSQL_begin_fail(t))
  /\ WF_vars(PostgreSQL_begin_client_ok(t) \/ PostgreSQL_begin_client_fail(t))
  /\ WF_vars(PostgreSQL_begin_ok(t) \/ PostgreSQL_begin_fail(t))
  /\ WF_vars(MySQL_begin_getConnection_ok(t))
  /\ WF_vars(MySQL_begin_ok(t) \/ MySQL_begin_fail(t))

SpecLive == Init /\ [][NextLive]_vars /\ \A t \in Tasks : Settles(t)

\* One caller gets the connection of one registered, enabled database, sends
\* statements on the object it holds and disconnects the name through the
\* manager, one call after the other.
NextReuse ==
  \/ RegisterOnce
  \/ get(Caller, First)
  \/ get_store(Caller)
  \/ ConnectDone(Caller)
  \/ disconnect(Caller, First)
  \/ DisconnectDone(Caller)
  \/ disconnect_delete(Caller)
  \/ query(Caller, "query")
  \/ QueryDone(Caller)

SpecReuse == Init /\ [][NextReuse]_vars

\* Two callers of one registered, enabled database each run one transaction
\* the documented way: try { statements; commit() } catch { rollback() }.
\* A caller sends statements until one fails or it commits, and rolls back
\* (once) after a statement or the commit has thrown.
InTry(t) == txs[t].ended = "" /\ ~txs[t].failed
InCatch(t) ==
  /\ task[t].op \in {"tx.query", "commit"}
  /\ task[t].res.kind = "err"

UsageStatement(t) ==
  /\ InTry(t)
  /\ \/ MSSQL_tx_query_ok(t)
     \/ MSSQL_tx_query_fail(t)
     \/ MySQL_tx_query_ok(t)
     \/ MySQL_tx_query_fail(t)
     \/ PostgreSQL_tx_query_ok(t)
     \/ PostgreSQL_tx_query_fail(t)
UsageCommit(t) ==
  /\ InTry(t)
  /\ \/ MSSQL_tx_commit_ok(t)
     \/ MSSQL_tx_commit_fail(t)
     \/ MySQL_tx_commit_ok(t)
     \/ MySQL_tx_commit_fail(t)
     \/ PostgreSQL_tx_commit_ok(t)
     \/ PostgreSQL_tx_commit_fail(t)
UsageRollback(t) ==
  /\ InCatch(t)
  /\ \/ MSSQL_tx_rollback_ok(t)
     \/ MSSQL_tx_rollback_fail(t)
     \/ MySQL_tx_rollback_ok(t)
     \/ MySQL_tx_rollback_fail(t)
     \/ PostgreSQL_tx_rollback_ok(t)
     \/ PostgreSQL_tx_rollback_fail(t)

NextUsage ==
  \/ RegisterOnce
  \/ \E t \in Tasks : get(t, First)
  \/ \E t \in Tasks : get_store(t)
  \/ \E t \in Tasks : ConnectDone(t)
  \/ \E t \in Tasks : beginTransaction(t)
  \/ \E t \in Tasks : BeginSettled(t)
  \/ \E t \in Tasks : UsageStatement(t)
  \/ \E t \in Tasks : UsageCommit(t)
  \/ \E t \in Tasks : UsageRollback(t)

SpecUsage == Init /\ [][NextUsage]_vars

\* Two callers of the single-database helper: getPool(), query(), execute()
\* and closePool(), concurrently.
LegacyOps == {"getPool", "legacy.query", "legacy.execute"}

NextLegacy ==
  \/ \E t \in Tasks : \E op \in LegacyOps : getPool(t, op)
  \/ \E t \in Tasks : getPool_connect_ok(t)
  \/ \E t \in Tasks : getPool_connect_fail(t)
  \/ \E t \in Tasks : request_ok(t)
  \/ \E t \in Tasks : request_fail(t)
  \/ \E t \in Tasks : closePool(t)
  \/ \E t \in Tasks : closePool_ok(t)
  \/ \E t \in Tasks : closePool_fail(t)

SpecLegacy == Init /\ [][NextLegacy]_vars

\* The statements query(sql, params) prepares, for every template and every
\* params object within the bounds, on a connection of each class.
InitParams ==
  /\ stmt \in {[NoStmt EXCEPT !.sql = s, !.params = p] : s \in Templates, p \in Params}
  /\ configs = [n \in Names |-> NoConfig]
  /\ registered = [n \in Names |-> NoConfig]
  /\ pool = 0
  /\ connections = [n \in Names |-> 0]
  /\ conns = <<>>
  /\ pools = <<>>
  /\ txs = [t \in Tasks |-> NoTx]
  /\ db = [n \in Names |-> {}]
  /\ task = [t \in Tasks |-> IdleTask]

NextParams ==
  \/ MySQL_query_send
  \/ PostgreSQL_query_send
  \/ MSSQL_query_send

SpecParams == InitParams /\ [][NextParams]_vars

\* --------------------------------------------------------- ResultAdapter
\* the rowsets a driver returns
RowSets == UNION {[1..n -> Values] : n \in 0..MaxRows}

\* The results the three drivers resolve a statement with.  mssql: a query
\* that returns rows, a statement that returns none, a batch of a statement
\* that returns none and a query, a statement that reports nothing.
\* mysql2: an array of rows, or a ResultSetHeader.  pg: a command that returns
\* rows (rowCount is their number), one that returns none, one without count.
Natives ==
  {[type |-> "mssql", present |-> TRUE, rows |-> r, affected |-> <<Len(r)>>] :
      r \in RowSets}
  \cup {[type |-> "mssql", present |-> FALSE, rows |-> <<>>, affected |-> <<n>>] :
      n \in 0..MaxAffected}
  \cup {[type |-> "mssql", present |-> TRUE, rows |-> r, affected |-> <<n, Len(r)>>] :
      r \in RowSets, n \in 0..MaxAffected}
  \cup {[type |-> "mssql", present |-> FALSE, rows |-> <<>>, affected |-> <<>>]}
  \cup {[type |-> "mysql", present |-> TRUE, rows |-> r, affected |-> <<>>] :
      r \in RowSets}
  \cup {[type |-> "mysql", present |-> FALSE, rows |-> <<>>, affected |-> <<n>>] :
      n \in 0..MaxAffected}
  \cup {[type |-> "postgresql", present |-> TRUE, rows |-> r, affected |-> <<Len(r)>>] :
      r \in RowSets}
  \cup {[type |-> "postgresql", present |-> FALSE, rows |-> <<>>, affected |-> <<n>>] :
      n \in 0..MaxAffected}
  \cup {[type |-> "postgresql", present |-> FALSE, rows |-> <<>>, affected |-> <<>>]}

\* ResultAdapter.fromMSSQL(result):
\*   rows: result.recordset || [],
\*   rowCount: result.rowsAffected?.[0] || result.recordset?.length || 0
fromMSSQL(r) ==
  [defined |-> TRUE,
   rows |-> IF r.present THEN r.rows ELSE <<>>,
   rowCount |-> IF r.affected # <<>> /\ r.affected[1] # 0 THEN r.affected[1]
                ELSE IF r.present /\ Len(r.rows) # 0 THEN Len(r.rows)
                ELSE 0]

\* ResultAdapter.fromMySQL(rows, fields):
\*   rows: Array.isArray(rows) ? rows : [],
\*   rowCount: Array.isArray(rows) ? rows.length : 0
fromMySQL(r) ==
  [defined |-> TRUE,
   rows |-> IF r.present THEN r.rows ELSE <<>>,
   rowCount |-> IF r.present THEN Len(r.rows) ELSE 0]

\* ResultAdapter.fromPostgreSQL(result):
\*   rows: result.rows || [], rowCount: result.rowCount || 0
fromPostgreSQL(r) ==
  [defined |-> TRUE,
   rows |-> r.rows,
   rowCount |-> IF r.affected = <<>> THEN 0 ELSE r.affected[1]]

\* `return ResultAdapter.fromMSSQL(result)` of MSSQLConnection.query
MSSQL_query_result ==
  /\ stmt.type = ""
  /\ stmt.native.type = "mssql"
  /\ stmt' = [stmt EXCEPT !.type = "mssql", !.result = fromMSSQL(stmt.native)]
  /\ UNCHANGED <<configs, connections, conns, pools, txs, db, task, registered, pool>>

\* `return ResultAdapter.fromMySQL(rows, fields)` of MySQLConnection.query
MySQL_query_result ==
  /\ stmt.type = ""
  /\ stmt.native.type = "mysql"
  /\ stmt' = [stmt EXCEPT !.type = "mysql", !.result = fromMySQL(stmt.native)]
  /\ UNCHANGED <<configs, connections, conns, pools, txs, db, task, registered, pool>>

\* `return ResultAdapter.fromPostgreSQL(result)` of PostgreSQLConnection.query
PostgreSQL_query_result ==
  /\ stmt.type = ""
  /\ stmt.native.type = "postgresql"
  /\ stmt' = [stmt EXCEPT !.type = "postgresql",
                          !.result = fromPostgreSQL(stmt.native)]
  /\ UNCHANGED <<configs, connections, conns, pools, txs, db, task, registered, pool>>

\* The results the drivers hand to the adapters, for every native result
\* within the bounds.
InitResults ==
  /\ stmt \in {[NoStmt EXCEPT !.native = r] : r \in Natives}
  /\ configs = [n \in Names |-> NoConfig]
  /\ registered = [n \in Names |-> NoConfig]
  /\ pool = 0
  /\ connections = [n \in Names |-> 0]
  /\ conns = <<>>
  /\ pools = <<>>
  /\ txs = [t \in Tasks |-> NoTx]
  /\ db = [n \in Names |-> {}]
  /\ task = [t \in Tasks |-> IdleTask]

NextResults ==
  \/ MSSQL_query_result
  \/ MySQL_query_result
  \/ PostgreSQL_query_result

SpecResults == InitResults /\ [][NextResults]_vars

\* ------------------------------------------------------------- properties
\* a step in which caller t starts a call of operation op
Starts(t, op) == Idle(t) /\ task'[t] # task[t] /\ task'[t].op = op

\* a step in which a call of operation op of caller t comes back
Ends(t, op) ==
  /\ task'[t] # task[t]
  /\ task'[t].op = op
  /\ task'[t].pc = "idle"
  /\ task'[t].res.kind # "none"

\* C1: sequential get(n) calls with no disconnect in between return the same
\* connection object and connect once.  A get(n) that returns normally
\* returns the object stored under n; a get(n) that starts while an object is
\* stored under n returns that object at once, building no connection object
\* and no pool; and the stored object changes only where a get() stores or a
\* disconnect() deletes.
C1_SequentialGetReusesConnection ==
  [][\A t \in Tasks :
       /\ (Ends(t, "get") /\ task'[t].res.kind = "ok") =>
             /\ task'[t].res.conn = connections'[task'[t].name]
             /\ task'[t].ref = task'[t].res.conn
       /\ (Starts(t, "get") /\ connections[task'[t].name] # 0) =>
             /\ Ends(t, "get")
             /\ task'[t].res = Returned(connections[task'[t].name], {})
             /\ UNCHANGED <<connections, conns, pools>>
       /\ (connections' # connections) =>
             \E u \in Tasks : task[u].pc \in {"store", "delete"} /\ task'[u].pc = "idle"
    ]_vars

\* two callers hold the one object a first get("primary") connected and
\* stored and a second one was given, and one pool exists
C1_Witness ==
  /\ \A t \in Tasks :
       /\ Idle(t)
       /\ task[t].op = "get"
       /\ task[t].res = Returned(connections["primary"], {})
  /\ connections["primary"] # 0
  /\ Len(conns) = 1
  /\ Len(pools) = 1
  /\ conns[1].connected
  /\ pools[1].state = "open"
\* no disconnect has started to close a pool so far
NoDisconnectYet == \A p \in 1..Len(pools) : pools[p].ends = 0

\* the connection objects of name n that have connected
ConnectedObjects(n) ==
  {c \in 1..Len(conns) : conns[c].name = n /\ conns[c].connected}

\* C2: concurrent first-time get(name) calls establish at most one pool for
\* the name and all callers end up with the same connection object (as long
\* as nothing has been disconnected, at most one object of the name has
\* connected and every caller that get() returned to holds that one).
C2_ConcurrentGetOnePool ==
  NoDisconnectYet =>
    /\ \A n \in Names : Cardinality(ConnectedObjects(n)) <= 1
    /\ \A t, u \in Tasks :
         ( /\ Idle(t) /\ task[t].op = "get" /\ task[t].res.kind = "ok"
           /\ Idle(u) /\ task[u].op = "get" /\ task[u].res.kind = "ok"
           /\ task[t].name = task[u].name )
         => task[t].res.conn = task[u].res.conn
\* C3: whatever register/get/disconnect calls came before, a get(name) that
\* starts while the configuration registered under name has enabled = false
\* fails with the "is disabled" DatabaseError and attempts no connection.
C3_DisabledGetFails ==
  [][\A t \in Tasks :
       ( /\ Starts(t, "get")
         /\ configs[task'[t].name] # NoConfig
         /\ configs[task'[t].name].enabled = FALSE )
       => /\ Ends(t, "get")
          /\ task'[t].res =
               DatabaseError("is disabled", task'[t].name, configs[task'[t].name].type, FALSE)
          /\ UNCHANGED <<conns, pools>>
    ]_vars
\* C4: for each backend class, once commit() or rollback() on a Transaction
\* handle has finished, by returning or by throwing, the dedicated session
\* that beginTransaction() acquired is no longer checked out by the handle.
C4_SessionReleasedAfterEnd ==
  \A t \in Tasks :
    txs[t].ended # "" => pools[txs[t].p].sess[txs[t].s].owner # t

\* a commit() on a handle has thrown and the session of the handle is back
\* in the pool, which is still open
C4_Witness ==
  \E t \in Tasks :
    /\ Idle(t)
    /\ task[t].op = "commit"
    /\ task[t].res.kind = "err"
    /\ txs[t].ended = "commit failed"
    /\ txs[t].type \in {"mysql", "postgresql"}
    /\ pools[txs[t].p].state = "open"
    /\ pools[txs[t].p].sess[txs[t].s].owner = ""
\* the two rows a caller writes first through its handle
TwoWrites(t) == {<<t, 1>>, <<t, 2>>}

\* caller t issued exactly two writes through its handle, both succeeded,
\* and its first commit() / rollback() then ended as `how`
WroteTwoThen(t, how) ==
  /\ txs[t].ended = how
  /\ txs[t].wend = 2
  /\ ~txs[t].failed

\* the last call of t is a query on the connection that returned rows
Queried(t) ==
  /\ Idle(t)
  /\ task[t].op = "query"
  /\ task[t].res.kind = "ok"

\* C5: after two writes through one handle and a commit() that succeeded,
\* both writes are in the logical database and in the rows of a later
\* query; after the same two writes and a rollback(), neither write is.
C5_CommitVisibleRollbackNot ==
  \A t \in Tasks :
    /\ WroteTwoThen(t, "committed") =>
         /\ TwoWrites(t) \subseteq db[conns[txs[t].c].name]
         /\ Queried(t) => TwoWrites(t) \subseteq task[t].res.rows
    /\ (WroteTwoThen(t, "rolled back") \/ WroteTwoThen(t, "rollback failed")) =>
         /\ TwoWrites(t) \cap db[conns[txs[t].c].name] = {}
         /\ Queried(t) => TwoWrites(t) \cap task[t].res.rows = {}

\* a query that follows two writes and their commit has returned both rows
C5_Witness ==
  \E t \in Tasks :
    /\ WroteTwoThen(t, "committed")
    /\ Queried(t)
    /\ task[t].res.rows = TwoWrites(t)
\* the name that follows position i - 1 of s: the longest run of word characters
RECURSIVE WordRun(_, _)
WordRun(s, i) ==
  IF i <= Len(s) /\ IsWord(s[i]) THEN <<s[i]>> \o WordRun(s, i + 1) ELSE <<>>

\* the placeholders of template s from position i on, in textual order: each
\* `prefix` character that is followed by a name of `keys`
RECURSIVE Placeholders(_, _, _, _)
Placeholders(s, i, prefix, keys) ==
  IF i > Len(s) THEN <<>>
  ELSE IF s[i] = prefix /\ WordRun(s, i + 1) \in keys
    THEN <<WordRun(s, i + 1)>> \o
         Placeholders(s, i + 1 + Len(WordRun(s, i + 1)), prefix, keys)
    ELSE Placeholders(s, i + 1, prefix, keys)

\* template s with each of these placeholders replaced by the character `mark`
RECURSIVE Rewritten(_, _, _, _, _)
Rewritten(s, i, prefix, keys, mark) ==
  IF i > Len(s) THEN <<>>
  ELSE IF s[i] = prefix /\ WordRun(s, i + 1) \in keys
    THEN <<mark>> \o Rewritten(s, i + 1 + Len(WordRun(s, i + 1)), prefix, keys, mark)
    ELSE <<s[i]>> \o Rewritten(s, i + 1, prefix, keys, mark)

KeysOf(params) == {params[i].key : i \in DOMAIN params}
Digits == {"0", "1", "2", "3", "4", "5", "6", "7", "8", "9"}
DigitValue(ch) == CHOOSE n \in 0..9 : ToString(n) = ch

\* the text with the numbers of its $n markers taken out
Unnumbered(text) == SelectSeq(text, LAMBDA ch : ch \notin Digits)

\* the number that starts at position i of text, after the digits read so far
RECURSIVE ReadNumber(_, _, _)
ReadNumber(text, i, n) ==
  IF i <= Len(text) /\ text[i] \in Digits
    THEN ReadNumber(text, i + 1, 10 * n + DigitValue(text[i]))
    ELSE n

\* the numbers of the $n markers of text, in textual order
RECURSIVE MarkerNumbers(_, _)
MarkerNumbers(text, i) ==
  IF i > Len(text) THEN <<>>
  ELSE IF text[i] = "$" THEN <<ReadNumber(text, i + 1, 0)>> \o MarkerNumbers(text, i + 1)
  ELSE MarkerNumbers(text, i + 1)

\* the :name placeholders of the template of stmt that params maps
Named == Placeholders(stmt.sql, 1, ":", KeysOf(stmt.params))

\* the value list binds the k-th `?` to the value of the k-th placeholder
QuestionMarksBound ==
  stmt.values = [k \in 1..Len(Named) |-> ValueOf(stmt.params, Named[k])]

\* marker $n of the text stands where a placeholder stood whose value is
\* element n of the value list
DollarMarkersBound ==
  /\ Len(MarkerNumbers(stmt.text, 1)) = Len(Named)
  /\ \A k \in 1..Len(Named) :
       /\ MarkerNumbers(stmt.text, 1)[k] \in 1..Len(stmt.values)
       /\ stmt.values[MarkerNumbers(stmt.text, 1)[k]] = ValueOf(stmt.params, Named[k])

\* C6: on the two positional backends every marker of the rewritten template
\* is bound to the value of the named parameter it replaced: the k-th `?` in
\* textual order to the k-th element of the value list, `$n` to element n.
C6_MarkersBoundToTheirValues ==
  /\ stmt.type = "mysql" => QuestionMarksBound
  /\ stmt.type = "postgresql" => DollarMarkersBound

\* how often value v stands in the sequence vs
Count(vs, v) == Cardinality({k \in DOMAIN vs : vs[k] = v})

\* C7: convertNamedParams replaces every occurrence of a mapped placeholder
\* once and pushes one value for it, no more (keys that are not in the
\* template add nothing), and the rest of the template stays as it was: a
\* placeholder whose name only begins with a mapped name is left whole.
C7_EveryPlaceholderReplacedOnce ==
  stmt.type \in {"mysql", "postgresql"} =>
    /\ Unnumbered(stmt.text) =
         Rewritten(stmt.sql, 1, ":", KeysOf(stmt.params),
                   IF stmt.type = "mysql" THEN "?" ELSE "$")
    /\ Len(stmt.values) = Len(Named)
    /\ \A v \in Values :
         Count(stmt.values, v) =
           Count([k \in 1..Len(Named) |-> ValueOf(stmt.params, Named[k])], v)

\* `:ab` was translated with both `a` and `ab` mapped, and with a key that
\* is not in the template: one marker, one value, that of `ab`
C7_Witness ==
  /\ stmt.type = "postgresql"
  /\ stmt.sql = <<":", "a", "b">>
  /\ KeysOf(stmt.params) = Keys
  /\ stmt.text = <<"$", "1">>
  /\ stmt.values = <<ValueOf(stmt.params, <<"a", "b">>)>>
  /\ ValueOf(stmt.params, <<"a">>) # ValueOf(stmt.params, <<"a", "b">>)

\* the @name placeholders of the template of stmt that params maps
AtNamed == Placeholders(stmt.sql, 1, "@", KeysOf(stmt.params))

\* C8: a template written with @name placeholders is executed on all three
\* backends with every placeholder bound to its mapped value: the request
\* has the input declared (MSSQL), or the placeholder was replaced by a
\* positional marker with a value in the value list (MySQL, PostgreSQL).
C8_AtNameBoundOnAllBackends ==
  /\ stmt.type = "mssql" =>
       \A k \in 1..Len(AtNamed) :
         \E i \in DOMAIN stmt.inputs :
           /\ stmt.inputs[i].key = AtNamed[k]
           /\ stmt.inputs[i].value = ValueOf(stmt.params, AtNamed[k])
  /\ stmt.type \in {"mysql", "postgresql"} =>
       /\ Placeholders(stmt.text, 1, "@", KeysOf(stmt.params)) = <<>>
       /\ Len(stmt.values) >= Len(AtNamed)
\* the connection object the last call of caller t worked on
Target(t) ==
  IF task[t].op \in {"tx.query", "commit", "rollback"} THEN txs[t].c ELSE task[t].ref

\* C9: every failure of connect, disconnect, query, execute, beginTransaction
\* and of a handle's query, commit and rollback reaches the caller as a
\* DatabaseError that carries the name of the database, the backend type
\* and the original error; no error of a driver comes through as it is.
C9_EveryFailureIsDatabaseError ==
  \A t \in Tasks :
    ( /\ Idle(t)
      /\ task[t].res.kind = "err"
      /\ task[t].op \in {"connect", "conn.disconnect", "query", "execute",
                         "beginTransaction", "tx.query", "commit", "rollback"} )
    => /\ task[t].res.class = "DatabaseError"
       /\ task[t].res.database = conns[Target(t)].name
       /\ task[t].res.type = conns[Target(t)].type
       /\ task[t].res.cause
StatementOps == {"query", "execute", "tx.query"}

\* a step of a query, an execute or a handle.query of caller t
StatementStep(t) == task'[t] # task[t] /\ task'[t].op \in StatementOps

\* a step in which such a call of t fails
StatementFails(t) ==
  /\ StatementStep(t)
  /\ task'[t].pc = "idle"
  /\ task'[t].res.kind = "err"

\* this.pool and this.connected of the object are what they were when the
\* call of t started
ConnectionAsBefore(t) ==
  /\ conns'[Target(t)'].pool = task'[t].pool0
  /\ conns'[Target(t)'].connected = task'[t].connected0

\* a pool is closed in this step, and not by a disconnect()
ClosedByOther ==
  \E p \in 1..Len(pools) :
    /\ pools[p].state # "closed"
    /\ pools'[p].state = "closed"
    /\ ~\E t \in Tasks :
          task[t].pc = "closing" /\ task[t].op \in {"disconnect", "conn.disconnect"}

Returns(t, op) == Ends(t, op) /\ task'[t].kids = task[t].kids

\* C11: testConnection(name) of the manager never raises, for any name: each
\* call comes back with a boolean; with false when the name is not registered
\* or is disabled and whenever the get(), the connect() or the probe it
\* awaited failed; with true only when the probe went through.
C11_TestConnectionNeverRaises ==
  [][\A t \in Tasks :
       Returns(t, "testConnection") =>
         /\ task'[t].res.kind = "bool"
         /\ ( \/ configs[task'[t].name] = NoConfig
              \/ ~configs[task'[t].name].enabled ) => task'[t].res.value = FALSE
         /\ task[t].res.kind = "err" => task'[t].res.value = FALSE
         /\ task'[t].res.value =>
              /\ connections[task'[t].name] # 0
              /\ conns[connections[task'[t].name]].connected
              /\ conns[connections[task'[t].name]].pool # 0
    ]_vars

\* a testConnection(name) that testAllConnections() called is running for t
TestingForAll(tk) == Len(tk.stack) = 2 /\ tk.stack[1] = "testAllConnections"

\* a pool of name n has been open at some time
Reached(n) == \E p \in 1..Len(pools) : pools[p].name = n /\ pools[p].state # "new"

\* C12: testAllConnections() never raises and returns one boolean for each
\* registered name and for no other: false for a disabled name, for which no
\* testConnection(), and so no connection attempt and no probe, is ever
\* started; the boolean testConnection(name) returned for an enabled one,
\* which is true only for a name whose server has been reached.
C12_TestAllOneBooleanPerName ==
  [][\A t \in Tasks :
       /\ TestingForAll(task'[t]) => configs[task'[t].name].enabled
       /\ (task[t].pc = "loop" /\ task'[t].pc = "loop" /\ task'[t].todo # task[t].todo)
             => UNCHANGED <<conns, pools>>
       /\ (TestingForAll(task[t]) /\ task'[t].pc = "loop") =>
             task'[t].results = (task[t].name :> task[t].res.value) @@ task[t].results
       /\ (task[t].pc # "idle" /\ task'[t].pc = "idle"
              /\ "testAllConnections" \in {task[t].op, task'[t].op}) =>
             /\ task'[t].res.kind = "map"
             /\ DOMAIN task'[t].res.map = getRegisteredDatabases
             /\ \A n \in DOMAIN task'[t].res.map :
                  /\ task'[t].res.map[n] \in BOOLEAN
                  /\ ~configs[n].enabled => task'[t].res.map[n] = FALSE
                  /\ task'[t].res.map[n] => configs[n].enabled /\ Reached(n)
    ]_vars

\* testAllConnections() has returned true for the one name and false for the
\* other, which is disabled
C12_Witness ==
  \E t \in Tasks :
    /\ Idle(t)
    /\ task[t].op = "testAllConnections"
    /\ task[t].res = Answers([n \in Names |-> n = "primary"])
    /\ configs["primary"].enabled
    /\ configs["secondary"] # NoConfig
    /\ ~configs["secondary"].enabled

\* isConnected(name)
isConnected(n) == connections[n] # 0

\* getConnectedDatabases()
getConnectedDatabases == {n \in Names : connections[n] # 0}

\* a step in which caller t starts a call of operation op other than
\* disconnectAll()
Begins(t, op) == Starts(t, op) /\ task'[t].kids = task[t].kids

\* C13: when disconnect(name) returns normally after it found a connection
\* stored, that object has no pool handle and is not connected, the pool the
\* call closed is closed and nothing is stored under the name; when
\* disconnectAll() returns normally nothing is stored under any name; and a
\* disconnect(name) that finds nothing stored returns normally at once and
\* changes nothing.
C13_DisconnectClosesAndRemoves ==
  [][\A t \in Tasks :
       /\ (task[t].pc = "delete" /\ Returns(t, "disconnect")
              /\ task'[t].res.kind = "ok") =>
            /\ ~isConnected(task[t].name)'
            /\ conns'[task[t].c].pool = 0
            /\ ~conns'[task[t].c].connected
            /\ task[t].p # 0 => pools'[task[t].p].state = "closed"
       /\ (task'[t] # task[t] /\ task'[t].pc = "idle"
              /\ task'[t].op = "disconnectAll" /\ task'[t].res.kind = "ok") =>
            getConnectedDatabases' = {}
       /\ (Begins(t, "disconnect") /\ ~isConnected(task'[t].name)) =>
            /\ task'[t].pc = "idle"
            /\ task'[t].res.kind = "ok"
            /\ UNCHANGED <<configs, connections, conns, pools, txs, db>>
    ]_vars

\* disconnectAll() has returned normally after closing the pools of two
\* stored connections
C13_Witness ==
  \E t \in Tasks :
    /\ Idle(t)
    /\ task[t].op = "disconnectAll"
    /\ task[t].res.kind = "ok"
    /\ Len(pools) = 2
    /\ \A p \in 1..Len(pools) : pools[p].state = "closed"
    /\ pools[1].name # pools[2].name
    /\ getConnectedDatabases = {}

\* the positions of a call inside the connect() it awaits
InConnect == {"connect1", "connect2"}

\* C14: for each class, a connect() that fails, at the construction of the
\* pool, at the first connection or at the probe, throws the "Failed to
\* connect" DatabaseError with the name and type of the object and the
\* original error, and the object is not connected afterwards (whichever call
\* awaited the connect(): a connect() left by a step without the object being
\* connected has thrown that error).
C14_FailedConnectIsConnectionError ==
  [][\A t \in Tasks :
       /\ (task[t].pc \in InConnect /\ task'[t].pc \notin InConnect
              /\ ~conns'[task[t].c].connected) =>
            /\ task'[t].res = DatabaseError("Failed to connect", conns[task[t].c].name,
                                            conns[task[t].c].type, TRUE)
            /\ task'[t].pc \in {"idle", "returned"}
       /\ (task[t].pc \in InConnect /\ task'[t].res.kind = "err") =>
            ~conns'[task[t].c].connected
       /\ (Returns(t, "connect") /\ task'[t].res.kind = "err") =>
            /\ task'[t].res = DatabaseError("Failed to connect", conns[task[t].ref].name,
                                            conns[task[t].ref].type, TRUE)
            /\ ~conns'[task[t].ref].connected
    ]_vars

\* a connect() of a PostgreSQL object has failed at its probe
C14_Witness ==
  \E t \in Tasks :
    /\ Idle(t)
    /\ task[t].op = "connect"
    /\ task[t].ref # 0
    /\ conns[task[t].ref].type = "postgresql"
    /\ task[t].res = ConnectFailed(task[t].ref)
    /\ ~conns[task[t].ref].connected
    /\ conns[task[t].ref].pool # 0
    /\ pools[conns[task[t].ref].pool].sess[1].owner = Probe

\* C15: whenever no call is running, every connection object that has a
\* pool handle is marked connected (this.pool != null implies
\* this.connected), whatever connect, disconnect, query, execute and
\* beginTransaction calls, failed ones included, came before.
C15_PoolHandleOnlyWhileConnected ==
  (\A t \in Tasks : Idle(t)) =>
    \A c \in 1..Len(conns) : conns[c].pool # 0 => conns[c].connected

\* C16: a connect() called on an object that is connected and has a pool
\* returns at once, without awaiting anything: no pool is created, no pool
\* and no session changes, and this.pool and this.connected of every object
\* stay what they were.
C16_ConnectOnConnectedIsNoOp ==
  [][\A t \in Tasks :
       ( /\ Begins(t, "connect")
         /\ conns[task[t].ref].connected
         /\ conns[task[t].ref].pool # 0 )
       => /\ task'[t].pc = "idle"
          /\ task'[t].res = Returned(task[t].ref, {})
          /\ UNCHANGED <<configs, connections, conns, pools, txs, db>>
    ]_vars

\* a connect() on a connected object has returned and the one pool is open
C16_Witness ==
  \E t \in Tasks :
    /\ Idle(t)
    /\ task[t].op = "connect"
    /\ task[t].res = Returned(task[t].ref, {})
    /\ task[t].connected0
    /\ task[t].pool0 # 0
    /\ conns[task[t].ref].pool = task[t].pool0
    /\ conns[task[t].ref].connected
    /\ Len(pools) = 1
    /\ pools[1].state = "open"

\* C17: disconnect() of a connection object is idempotent.  When a
\* disconnect() that closed a pool returns normally, the object has no pool
\* handle and is not connected; a disconnect() that starts on an object
\* without a pool handle returns normally at once, closes nothing and changes
\* nothing.
C17_DisconnectIdempotent ==
  [][\A t \in Tasks :
       /\ ( /\ task[t].pc = "closing"
            /\ Returns(t, "conn.disconnect")
            /\ task'[t].res.kind = "ok" )
          => /\ conns'[task[t].c].pool = 0
             /\ ~conns'[task[t].c].connected
             /\ pools'[task[t].p].state = "closed"
       /\ ( /\ Begins(t, "conn.disconnect")
            /\ conns[task[t].ref].pool = 0 )
          => /\ task'[t].pc = "idle"
             /\ task'[t].res = Returned(task[t].ref, {})
             /\ UNCHANGED <<configs, connections, conns, pools, txs, db>>
    ]_vars

\* a second disconnect() has returned on the object whose pool the first one
\* closed
C17_Witness ==
  \E t \in Tasks :
    /\ Idle(t)
    /\ task[t].op = "conn.disconnect"
    /\ task[t].res = Returned(task[t].ref, {})
    /\ task[t].pool0 = 0
    /\ conns[task[t].ref].pool = 0
    /\ ~conns[task[t].ref].connected
    /\ Len(pools) = 1
    /\ pools[1].state = "closed"
    /\ pools[1].ends = 1

\* the affected-row count the driver reported for the statement
Affected(r) == IF r.affected = <<>> THEN 0 ELSE r.affected[1]

\* C18: for each adapter and every native result, rows of the QueryResult is
\* a sequence, empty when the native result carries no rowset; rowCount is
\* the length of rows when it carries one, and the affected-row count of the
\* backend when it carries none.
C18_RowCountReflectsRowsOrAffected ==
  stmt.result # NoResult =>
    /\ stmt.result.defined
    /\ ~stmt.native.present => stmt.result.rows = <<>>
    /\ stmt.native.present => stmt.result.rowCount = Len(stmt.result.rows)
    /\ ~stmt.native.present => stmt.result.rowCount = Affected(stmt.native)

\* C19: a get(name) that starts while no configuration is registered under
\* name and no connection is stored under it fails at once with the "No
\* configuration found" DatabaseError; no connection object and no pool is
\* built, and this.configs and this.connections stay as they were.
C19_UnconfiguredGetFails ==
  [][\A t \in Tasks :
       ( /\ Starts(t, "get")
         /\ configs[task'[t].name] = NoConfig
         /\ ~isConnected(task'[t].name) )
       => /\ Ends(t, "get")
          /\ task'[t].res.kind = "err"
          /\ task'[t].res.class = "DatabaseError"
          /\ task'[t].res.msg = "No configuration found"
          /\ task'[t].res.database = task'[t].name
          /\ UNCHANGED <<configs, connections, conns, pools, db>>
    ]_vars

\* get("secondary") has failed for want of a configuration while the
\* connection of "primary" is stored and connected
C19_Witness ==
  \E t \in Tasks :
    /\ Idle(t)
    /\ task[t].op = "get"
    /\ task[t].name = "secondary"
    /\ task[t].res = DatabaseError("No configuration found", "secondary", "mssql", FALSE)
    /\ configs["secondary"] = NoConfig
    /\ isConnected("primary")
    /\ ~isConnected("secondary")
    /\ Len(conns) = 1
    /\ conns[1].connected

\* C20: at every moment each name maps to nothing (never registered) or to
\* exactly the configuration passed to the latest register call for it, whole and
\* stored under its own name; and the step of a register call touches nothing but
\* the configurations: the connection map, the connection objects, the pools,
\* the transactions, the database and the callers are as they were
C20_RegisterOverwrites ==
  [][/\ \A n \in Names :
          /\ configs'[n] = registered'[n]
          /\ configs'[n] # NoConfig => configs'[n] \in Config /\ configs'[n].name = n
     /\ (registered' # registered \/ configs' # configs)
          => /\ \E n \in Names : \A m \in Names \ {n} : configs'[m] = configs[m]
             /\ UNCHANGED <<connections, conns, pools, txs, db, task, stmt>>]_vars

\* a disabled configuration has replaced the enabled one under which the stored
\* connection was made
C20_Witness ==
  /\ registered[First] # NoConfig
  /\ ~registered[First].enabled
  /\ configs[First] = registered[First]
  /\ connections[First] # 0
\* C21: a get(name) whose connect() fails has made one connect attempt (it
\* built one connection object and one pool when it started and builds none
\* while it awaits), ends with the "Failed to connect" DatabaseError of that
\* object and leaves this.connections as it was; an object enters
\* this.connections only connected; and a get(name) that starts while nothing
\* is stored under an enabled name builds a new object and a new pool.
C21_FailedGetStoresNothing ==
  [][\A t \in Tasks :
       /\ (task[t].op = "get" /\ task[t].pc \in InConnect /\ task'[t] # task[t]) =>
            /\ Len(conns') = Len(conns)
            /\ Len(pools') = Len(pools)
            /\ task'[t].pc \in InConnect => task'[t].c = task[t].c /\ task'[t].p = task[t].p
            /\ task'[t].res.kind = "err" =>
                 /\ Ends(t, "get")
                 /\ task'[t].res = ConnectFailed(task[t].c)
                 /\ UNCHANGED <<connections, conns, pools>>
       /\ \A n \in Names :
            (connections'[n] # connections[n] /\ connections'[n] # 0) =>
               /\ conns[connections'[n]].connected
               /\ conns[connections'[n]].name = n
       /\ ( /\ Starts(t, "get")
            /\ connections[task'[t].name] = 0
            /\ configs[task'[t].name] # NoConfig
            /\ configs[task'[t].name].enabled ) =>
            /\ conns' = Append(conns, [createConnection(configs[task'[t].name])
                                          EXCEPT !.pool = Len(pools')])
            /\ Len(pools') = Len(pools) + 1
            /\ task'[t].c = Len(conns')
            /\ task'[t].p = Len(pools')
            /\ task'[t].pc = "connect1"
    ]_vars

\* the connect() of a first get("primary") failed; a later get("primary")
\* built a second object, connected it, stored it and returned it
C21_Witness ==
  \E t \in Tasks :
    /\ \A u \in Tasks : Idle(u)
    /\ Len(conns) = 2
    /\ ~conns[1].connected
    /\ conns[1].name = First
    /\ pools[1].ends = 0
    /\ connections[First] = 2
    /\ conns[2].connected
    /\ task[t].op = "get"
    /\ task[t].res = Returned(2, {})
\* C22: every call a caller has started eventually comes back, with a result
\* or with an error: no get (connect attempt), query or beginTransaction
\* stays pending forever, also while every session of the pool is held by a
\* transaction that is never committed or rolled back.
C22_EveryCallCompletes ==
  \A t \in Tasks : (task[t].pc # "idle") ~> (task[t].pc = "idle")
\* C23: a statement that a Transaction handle executes runs on a session the
\* handle owns: once commit() or rollback() has released the dedicated
\* session, no later query through the same handle is executed on it.
C23_ReleasedSessionNotUsed ==
  [][\A t \in Tasks :
       (Ends(t, "tx.query") /\ task'[t].res.kind = "ok") =>
          /\ txs[t].ended = ""
          /\ pools[txs[t].p].sess[txs[t].s].owner = t
    ]_vars
\* the connection objects of name n that are connected and whose pool is open
InUse(n) ==
  {c \in 1..Len(conns) :
     /\ conns[c].name = n
     /\ conns[c].connected
     /\ conns[c].pool # 0
     /\ pools[conns[c].pool].state = "open"}

\* C24: whenever no call is running and a connection object of a name is
\* connected with its pool open, that object is the one the registry holds
\* under the name (isConnected(name) is true); so no second open pool of the
\* name is in use, also after disconnect(name), a query() on the object taken
\* before it and a further get(name).
C24_OpenPoolIsRegistered ==
  (\A t \in Tasks : Idle(t)) =>
     \A n \in Names : \A c \in InUse(n) : isConnected(n) /\ connections[n] = c
\* C25: with try { statements; commit() } catch { rollback() }, the dedicated
\* session of a transaction is released once: a commit() or rollback() called
\* on a handle whose first commit() or rollback() has already released the
\* session releases no session and sends nothing (the sessions of every pool
\* and the database stay as they are).
C25_SessionReleasedOnce ==
  [][\A t \in Tasks :
       ( /\ txs[t].ended # ""
         /\ task'[t] # task[t]
         /\ task'[t].op \in {"commit", "rollback"} )
       => UNCHANGED <<pools, db>>
    ]_vars
\* the sessions caller t has checked out
Held(t) ==
  {ps \in (1..Len(pools)) \X (1..PoolMax) : pools[ps[1]].sess[ps[2]].owner = t}

\* C26: a session is checked out for a caller only while its
\* beginTransaction() is running or when that call has returned a handle:
\* when starting the transaction fails after the session was acquired, the
\* session is back in the pool once the error has reached the caller.
C26_FailedBeginReleasesSession ==
  \A t \in Tasks :
    (Idle(t) /\ Held(t) # {}) => txs[t].handle

\* C27: when no call is running, no session is checked out for the probe of
\* a connect(), and every pool that was opened and not closed is the pool
\* of a connection object: a failed connect() leaves no probe session and no
\* open pool behind, so that a later successful connect() makes the one open
\* pool of the object.
C27_FailedConnectLeavesNoOrphan ==
  (\A t \in Tasks : Idle(t)) =>
     \A p \in 1..Len(pools) :
        /\ \A s \in 1..PoolMax : pools[p].sess[s].owner # Probe
        /\ pools[p].state = "open" => \E c \in 1..Len(conns) : conns[c].pool = p
\* the connection objects a running disconnect(name) is closing or has closed
\* and is about to remove from the registry
BeingDisconnected ==
  {task[u].c : u \in {v \in Tasks : /\ task[v].op = "disconnect"
                                     /\ task[v].pc \in {"closing", "delete"}}}

\* C28: a get(name) that returns while a disconnect(name) is in progress does
\* not return the connection object that disconnect is closing and will
\* remove from the registry.
C28_GetNeverReturnsClosingConnection ==
  [][\A t \in Tasks :
       (Ends(t, "get") /\ task'[t].res.kind = "ok") =>
          task'[t].res.conn \notin BeingDisconnected
    ]_vars
\* a step in which caller t calls end() / close() on pool p: its disconnect()
\* goes to the await, or its disconnectAll() starts a disconnect(name) that does
Closes(t, p) ==
  \/ /\ task[t].pc # "closing"
     /\ task'[t].pc = "closing"
     /\ task'[t].p = p
  \/ /\ task[t].kids = <<>>
     /\ \E n \in DOMAIN task'[t].kids :
          task'[t].kids[n].st = "closing" /\ task'[t].kids[n].p = p

\* C29: end() / close() is called on a native pool at most once: a disconnect
\* that calls it finds that no earlier or overlapping disconnect(name),
\* disconnectAll() or disconnect() has called it on that pool.
C29_PoolClosedOnce ==
  [][\A t \in Tasks : \A p \in 1..Len(pools) :
       Closes(t, p) => pools[p].ends = 0
    ]_vars
\* C30: the pool getPool() returns to its caller, and the pool query() and
\* execute() send their request on, is never null and never a pool whose
\* connect() has not resolved (still connecting, or failed), under every
\* interleaving of two callers; and at most one pool that has not been
\* closed exists.
C30_GetPoolReturnsConnectedPool ==
  [][/\ \A t \in Tasks :
          /\ (Ends(t, "getPool") /\ task'[t].res.kind = "ok") =>
                /\ task'[t].res.pool # 0
                /\ pools'[task'[t].res.pool].state # "new"
          /\ (task[t].pc # "request" /\ task'[t].pc = "request") =>
                pools'[task'[t].p].state # "new"
     /\ Cardinality({p \in 1..Len(pools') : pools'[p].state # "closed"}) <= 1
    ]_vars

====
